---- MODULE Spec2Model ----
(***************************************************************************)
(* TLA+ model of the MIDI router / arpeggiator in src/midi_router.py.      *)
(*                                                                         *)
(* The state is the runtime state of main(): the held chord, the          *)
(* per-pattern runtime dictionaries, last_played, the loaded              *)
(* configuration, the reload flag and the position of the event loop.     *)
(* Two observation variables record what the loop sends: `emitted` (the   *)
(* messages sent while handling the current event) and `sounding` (per    *)
(* output, the notes a note-on switched on and no note-off of the same    *)
(* channel switched off, each with its channel).                          *)
(* `config` is the text of config.json as last loaded, and `meter` counts, *)
(* when switched on, the clock pulses and the step fires since the chord   *)
(* was entered.                                                            *)
(*                                                                         *)
(* Python values are encoded as follows:                                  *)
(*   - None is the integer -1 (notes, indices and velocities are >= 0);   *)
(*   - a value json.loads returns is a record [t, i, s, items]: IntV(k)   *)
(*     for an int, FloatV(i, s) for a float (i is what int() makes of it, *)
(*     s its repr()), StrV(x) for a str, BoolV(b), NullV for None,         *)
(*     ListV(items) for a list and DictV(items) for a dict, its items the  *)
(*     <<key, value>> pairs in insertion order; d.get(key, dflt) is        *)
(*     Get(d, key, dflt);                                                  *)
(*   - the integers are those of 32 bits: the numbers of a text stay below *)
(*     2^31 in size;                                                       *)
(*   - a str is a TLA+ string, whose characters are the code points below *)
(*     256;                                                                *)
(*   - the float gate_left / pending_left are counted in hundredths of a  *)
(*     pulse (gate_left = pulses * gate / 100.0 is pulses * gate          *)
(*     hundredths exactly; subtracting 1.0 is subtracting 100);           *)
(*   - the float tick is an integer: pulses is float(int) and tick only   *)
(*     changes by +1.0 and -pulses, so it is always integral and          *)
(*     `tick + 1e-9 < pulses` is `tick < pulses`;                         *)
(*   - Python lists are sequences, so list[k] is seq[k + 1].              *)
(***************************************************************************)
EXTENDS Integers, Sequences, FiniteSets, TLC

VARIABLES
    chord_notes,       \* List[int]: the held chord, ascending
    last_played,       \* Dict[name, Optional[int]]
    pattern_state,     \* Dict[name, runtime dict]
    pattern_cfgs,      \* Dict[name, pattern config] as returned by load_config
    out_map,           \* Dict[name, channel] (0-based) of the open output ports
    key_order,         \* the insertion order of the keys of the dicts:
                       \* [ports] for out_map, outputs and last_played,
                       \* [patterns] for pattern_cfgs and pattern_state
    reload_requested,  \* flag set by the signal handler
    pc,                \* position of the event loop
    msg,               \* the input message being handled (or handled last)
    log,               \* what the last reload attempt printed
    emitted,           \* messages sent while handling the current event
    sounding,          \* per output: <<channel, note>> switched on and not off since
    config,            \* the text of config.json as last loaded
    meter,             \* [on, clocks, fires]: pulses and fires since chord enter
    calls_left,        \* the calls of main() still to come (lines 745-746)
    lock_file,         \* LOCK_PATH exists and holds the pid of this process
    in_channel         \* the input channel (0-based) main() read at its start
                       \* (line 319); a reload drops the one it reads (line 463)

vars == <<chord_notes, last_played, pattern_state, pattern_cfgs, out_map,
          key_order, reload_requested, pc, msg, log, emitted, sounding, config, meter,
          calls_left, lock_file, in_channel>>

-----------------------------------------------------------------------------
(* Encodings and small helpers                                             *)

None == -1

IntV(k) == [t |-> "int", i |-> k, s |-> "", items |-> <<>>]

StrV(x) == [t |-> "str", i |-> 0, s |-> x, items |-> <<>>]

NullV == [t |-> "null", i |-> 0, s |-> "", items |-> <<>>]

BoolV(b) == [t |-> "bool", i |-> IF b THEN 1 ELSE 0, s |-> "", items |-> <<>>]

FloatV(i, s) == [t |-> "float", i |-> i, s |-> s, items |-> <<>>]

ListV(items) == [t |-> "list", i |-> 0, s |-> "", items |-> items]

DictV(items) == [t |-> "dict", i |-> 0, s |-> "", items |-> items]

IsStr(v) == v.t = "str"

\* the member of a one-member set: {e(v) : v \in {d}} names d once, so
\* that e takes it as a value
TheOne(S) == CHOOSE v \in S : TRUE

\* d.get(key, dflt) of a dict
Get(d, key, dflt) ==
    IF d.t = "dict" /\ \E k \in 1..Len(d.items) : d.items[k][1] = key
    THEN d.items[CHOOSE k \in 1..Len(d.items) : d.items[k][1] = key][2]
    ELSE dflt

\* bool(v): what `not v` and `v or w` test
Truthy(v) ==
    CASE v.t = "null"            -> FALSE
      [] v.t = "str"             -> v.s # ""
      [] v.t = "float"           -> v.s \notin {"0.0", "-0.0"}
      [] v.t \in {"list", "dict"} -> v.items # <<>>
      [] OTHER                   -> v.i # 0

\* v[:n] is defined: v is a list or a str
Sliceable(v) == v.t \in {"list", "str"}

\* len(v) is defined
HasLen(v) == v.t \in {"list", "str", "dict"}

\* ---- the str of Python ----
\*
\* A str is a string of the model, character by character: a code point of
\* 2..255 other than 60 (hex) is the character itself, and every other code
\* point (0, 1, 60, those above FF, a surrogate that stands alone) is a unit
\* of seven characters, the mark (the character of code point 1) and the six
\* hexadecimal digits of the code point. So "a" \o Chr(256) is the str of
\* length 2 that Python writes "aĀ".

\* the characters of the code points 1 to 255, in their order (the blank at
\* 60 (hex) holds the place of the grave accent)
Latin1 ==
    "\t\n\f\r !\"#$%&'()*+,-./0123456789:;<=>?@ABCDEFGHIJKLMNOPQRSTUVWXYZ[\\]^_ abcdefghijklmnopqrstuvwxyz{|}~ ¡¢£¤¥¦§¨©ª«¬­®¯°±²³´µ¶·¸¹º»¼½¾¿ÀÁÂÃÄÅÆÇÈÉÊËÌÍÎÏÐÑÒÓÔÕÖ×ØÙÚÛÜÝÞßàáâãäåæçèéêëìíîïðñòóôõö÷øùúûüýþÿ"

\* what opens a unit of seven characters
Mark == SubSeq(Latin1, 1, 1)

HexDigit(n) == SubSeq("0123456789abcdef", n + 1, n + 1)

\* '%04x' % n
Hex4(n) ==
    HexDigit((n \div 4096) % 16) \o HexDigit((n \div 256) % 16)
    \o HexDigit((n \div 16) % 16) \o HexDigit(n % 16)

\* chr(n)
Chr(n) ==
    IF n \in 2..255 /\ n # 96 THEN SubSeq(Latin1, n, n)
    ELSE Mark \o HexDigit((n \div 1048576) % 16) \o HexDigit((n \div 65536) % 16)
         \o Hex4(n)

\* x[k - 1 : k] of a text, counting from 1: "" outside the text
At(x, k) == IF 1 <= k /\ k <= Len(x) THEN SubSeq(x, k, k) ELSE ""

DigitOf(c) ==
    CASE c = "0" -> 0 [] c = "1" -> 1 [] c = "2" -> 2 [] c = "3" -> 3
      [] c = "4" -> 4 [] c = "5" -> 5 [] c = "6" -> 6 [] c = "7" -> 7
      [] c = "8" -> 8 [] c = "9" -> 9 [] OTHER -> None

Digits == {"0", "1", "2", "3", "4", "5", "6", "7", "8", "9"}

HexOf(c) ==
    IF c \in Digits THEN DigitOf(c)
    ELSE CASE c \in {"a", "A"} -> 10 [] c \in {"b", "B"} -> 11
           [] c \in {"c", "C"} -> 12 [] c \in {"d", "D"} -> 13
           [] c \in {"e", "E"} -> 14 [] c \in {"f", "F"} -> 15
           [] OTHER -> None

\* int(x[k - 1 : k - 1 + w], 16) of w hexadecimal digits
RECURSIVE HexAt(_, _, _)
HexAt(x, k, w) ==
    IF w = 0 THEN 0 ELSE 16 * HexAt(x, k, w - 1) + HexOf(At(x, k + w - 1))

\* ord(c) of one character
Ord(c) ==
    IF At(c, 1) = Mark THEN HexAt(c, 2, 6)
    ELSE CHOOSE n \in (2..255) \ {96} : SubSeq(Latin1, n, n) = c

\* sep.join(parts[lo - 1 : hi])
RECURSIVE Join(_, _, _, _)
Join(sep, parts, lo, hi) ==
    IF lo > hi THEN ""
    ELSE IF lo = hi THEN parts[lo]
    ELSE LET mid == (lo + hi) \div 2
         IN  Join(sep, parts, lo, mid) \o sep \o Join(sep, parts, mid + 1, hi)

\* the least and the greatest member of a non-empty set of integers
Least(S) == CHOOSE k \in S : \A j \in S : k <= j

Greatest(S) == CHOOSE k \in S : \A j \in S : k >= j

\* the characters of the str x in their order: list(x)
Units(x) ==
    TheOne({TheOne({
        [i \in 1..(Len(s) - 6 * Cardinality(marks)) |->
            TheOne({SubSeq(s, k, IF At(s, k) = Mark THEN k + 6 ELSE k) :
                      k \in {CHOOSE k \in 1..Len(s) :
                               /\ k - 6 * Cardinality({q \in marks : q < k}) = i
                               /\ \A q \in marks : ~(q < k /\ k <= q + 6)}})] :
        marks \in {{k \in 1..Len(s) : At(s, k) = Mark}}}) :
      s \in {x}})

\* [ord(c) for c in x]
Codes(x) == TheOne({[i \in 1..Len(us) |-> Ord(us[i])] : us \in {Units(x)}})

\* the last character of a str that is not empty
Last(x) ==
    TheOne({IF At(s, Len(s) - 6) = Mark THEN SubSeq(s, Len(s) - 6, Len(s))
            ELSE At(s, Len(s)) :
              s \in {x}})

\* len(v)
PyLen(v) == IF IsStr(v) THEN Len(Units(v.s)) ELSE Len(v.items)

\* the entries of a list, or the characters of a str: what v[k] and a loop
\* over v[:n] give
Entries(v) ==
    IF IsStr(v)
    THEN TheOne({[k \in 1..Len(us) |-> StrV(us[k])] : us \in {Units(v.s)}})
    ELSE v.items

\* str.upper() on the one-letter symbols the configuration uses (no other
\* str has "R", "X" or "T" as its upper())
Upper(x) ==
    CASE x = "r" -> "R"
      [] x = "x" -> "X"
      [] x = "t" -> "T"
      [] OTHER -> x

Min(a, b) == IF a < b THEN a ELSE b

Max(a, b) == IF a > b THEN a ELSE b

Clamp(lo, hi, v) == Max(lo, Min(hi, v))

\* lst[:n] of Python (a negative n drops the last -n entries)
Slice(lst, n) ==
    IF n >= 0 THEN SubSeq(lst, 1, Min(n, Len(lst)))
    ELSE SubSeq(lst, 1, Max(0, Len(lst) + n))

\* [v] * n of Python (empty when n <= 0)
Repeat(v, n) == [k \in 1..Max(0, n) |-> v]

\* `if len(lst) < length: lst += [v] * (length - len(lst))`
PadTo(lst, n, v) == IF Len(lst) < n THEN lst \o Repeat(v, n - Len(lst)) ELSE lst

\* random.randint(a, b): every integer of a..b (the callers pass a <= b)
RandInt(a, b) == a..b

\* `sub in x` for a one-character sub
Contains(x, sub) ==
    TheOne({\E k \in 1..Len(us) : us[k] = sub : us \in {Units(x)}})

\* The tables of the Unicode database (14.0, that of Python 3.11) that
\* str.lower() and int() read, written in fields of hexadecimal digits.
\* LowerRuns: <<lo, hi, step, to>> (fields of 6, 6, 1 and 6 digits) says
\* that str.lower() takes the code points lo, lo + step, ..., hi to to,
\* to + step, ... CaseIgnorable and CasedLetters: the ranges <<lo, hi>> of
\* the code points that are case-ignorable, and of those that are cased
\* and not case-ignorable. DecimalZeros: the code points of the digits
\* zero; the nine that follow each are its digits one to nine.
Runs(fields) ==
    TheOne({[r \in 1..(Len(s) \div 19) |->
                <<HexAt(s, 19 * r - 18, 6), HexAt(s, 19 * r - 12, 6),
                  HexAt(s, 19 * r - 6, 1), HexAt(s, 19 * r - 5, 6)>>] :
              s \in {fields}})

Ranges(fields) ==
    TheOne({[r \in 1..(Len(s) \div 12) |->
                <<HexAt(s, 12 * r - 11, 6), HexAt(s, 12 * r - 5, 6)>>] :
              s \in {fields}})

Zeros(fields) ==
    TheOne({[r \in 1..(Len(s) \div 6) |-> HexAt(s, 6 * r - 5, 6)] :
              s \in {fields}})

LowerRuns ==
    Runs("00004100005a10000610000c00000d610000e00000d80000de10000f8"
         \o "00010000012e20001010001320001362000133000139000147200013a"
         \o "00014a000176200014b00017800017810000ff00017900017d200017a"
         \o "000181000181100025300018200018420001830001860001861000254"
         \o "000187000187100018800018900018a100025600018b00018b100018c"
         \o "00018e00018e10001dd00018f00018f1000259000190000190100025b"
         \o "000191000191100019200019300019310002600001940001941000263"
         \o "000196000196100026900019700019710002680001980001981000199"
         \o "00019c00019c100026f00019d00019d100027200019f00019f1000275"
         \o "0001a00001a420001a10001a60001a610002800001a70001a710001a8"
         \o "0001a90001a910002830001ac0001ac10001ad0001ae0001ae1000288"
         \o "0001af0001af10001b00001b10001b2100028a0001b30001b520001b4"
         \o "0001b70001b710002920001b80001b810001b90001bc0001bc10001bd"
         \o "0001c40001c410001c60001c50001c510001c60001c70001c710001c9"
         \o "0001c80001c810001c90001ca0001ca10001cc0001cb0001db20001cc"
         \o "0001de0001ee20001df0001f10001f110001f30001f20001f420001f3"
         \o "0001f60001f610001950001f70001f710001bf0001f800021e20001f9"
         \o "000220000220100019e000222000232200022300023a00023a1002c65"
         \o "00023b00023b100023c00023d00023d100019a00023e00023e1002c66"
         \o "000241000241100024200024300024310001800002440002441000289"
         \o "000245000245100028c00024600024e20002470003700003722000371"
         \o "000376000376100037700037f00037f10003f300038600038610003ac"
         \o "00038800038a10003ad00038c00038c10003cc00038e00038f10003cd"
         \o "0003910003a110003b10003a40003ab10003c40003cf0003cf10003d7"
         \o "0003d80003ee20003d90003f40003f410003b80003f70003f710003f8"
         \o "0003f90003f910003f20003fa0003fa10003fb0003fd0003ff100037b"
         \o "00040000040f100045000041000042f10004300004600004802000461"
         \o "00048a0004be200048b0004c00004c010004cf0004c10004cd20004c2"
         \o "0004d000052e20004d100053100055610005610010a00010c51002d00"
         \o "0010c70010c71002d270010cd0010cd1002d2d0013a00013ef100ab70"
         \o "0013f00013f510013f8001c90001cba10010d0001cbd001cbf10010fd"
         \o "001e00001e942001e01001e9e001e9e10000df001ea0001efe2001ea1"
         \o "001f08001f0f1001f00001f18001f1d1001f10001f28001f2f1001f20"
         \o "001f38001f3f1001f30001f48001f4d1001f40001f59001f5f2001f51"
         \o "001f68001f6f1001f60001f88001f8f1001f80001f98001f9f1001f90"
         \o "001fa8001faf1001fa0001fb8001fb91001fb0001fba001fbb1001f70"
         \o "001fbc001fbc1001fb3001fc8001fcb1001f72001fcc001fcc1001fc3"
         \o "001fd8001fd91001fd0001fda001fdb1001f76001fe8001fe91001fe0"
         \o "001fea001feb1001f7a001fec001fec1001fe5001ff8001ff91001f78"
         \o "001ffa001ffb1001f7c001ffc001ffc1001ff300212600212610003c9"
         \o "00212a00212a100006b00212b00212b10000e5002132002132100214e"
         \o "00216000216f100217000218300218310021840024b60024cf10024d0"
         \o "002c00002c2f1002c30002c60002c601002c61002c62002c62100026b"
         \o "002c63002c631001d7d002c64002c64100027d002c67002c6b2002c68"
         \o "002c6d002c6d1000251002c6e002c6e1000271002c6f002c6f1000250"
         \o "002c70002c701000252002c72002c721002c73002c75002c751002c76"
         \o "002c7e002c7f100023f002c80002ce22002c81002ceb002ced2002cec"
         \o "002cf2002cf21002cf300a64000a66c200a64100a68000a69a200a681"
         \o "00a72200a72e200a72300a73200a76e200a73300a77900a77b200a77a"
         \o "00a77d00a77d1001d7900a77e00a786200a77f00a78b00a78b100a78c"
         \o "00a78d00a78d100026500a79000a792200a79100a79600a7a8200a797"
         \o "00a7aa00a7aa100026600a7ab00a7ab100025c00a7ac00a7ac1000261"
         \o "00a7ad00a7ad100026c00a7ae00a7ae100026a00a7b000a7b0100029e"
         \o "00a7b100a7b1100028700a7b200a7b2100029d00a7b300a7b3100ab53"
         \o "00a7b400a7c2200a7b500a7c400a7c4100a79400a7c500a7c51000282"
         \o "00a7c600a7c61001d8e00a7c700a7c9200a7c800a7d000a7d0100a7d1"
         \o "00a7d600a7d8200a7d700a7f500a7f5100a7f600ff2100ff3a100ff41"
         \o "01040001042710104280104b00104d310104d801057001057a1010597"
         \o "01057c01058a10105a301058c01059210105b301059401059510105bb"
         \o "010c80010cb21010cc00118a00118bf10118c0016e40016e5f1016e60"
         \o "01e90001e921101e922")

CaseIgnorable ==
    Ranges("00002700002700002e00002e00003a00003a00005e00005e000060000060"
           \o "0000a80000a80000ad0000ad0000af0000af0000b40000b40000b70000b8"
           \o "0002b000036f00037400037500037a00037a000384000385000387000387"
           \o "00048300048900055900055900055f00055f0005910005bd0005bf0005bf"
           \o "0005c10005c20005c40005c50005c70005c70005f40005f4000600000605"
           \o "00061000061a00061c00061c00064000064000064b00065f000670000670"
           \o "0006d60006dd0006df0006e80006ea0006ed00070f00070f000711000711"
           \o "00073000074a0007a60007b00007eb0007f50007fa0007fa0007fd0007fd"
           \o "00081600082d00085900085b00088800088800089000089100089800089f"
           \o "0008c900090200093a00093a00093c00093c00094100094800094d00094d"
           \o "0009510009570009620009630009710009710009810009810009bc0009bc"
           \o "0009c10009c40009cd0009cd0009e20009e30009fe0009fe000a01000a02"
           \o "000a3c000a3c000a41000a42000a47000a48000a4b000a4d000a51000a51"
           \o "000a70000a71000a75000a75000a81000a82000abc000abc000ac1000ac5"
           \o "000ac7000ac8000acd000acd000ae2000ae3000afa000aff000b01000b01"
           \o "000b3c000b3c000b3f000b3f000b41000b44000b4d000b4d000b55000b56"
           \o "000b62000b63000b82000b82000bc0000bc0000bcd000bcd000c00000c00"
           \o "000c04000c04000c3c000c3c000c3e000c40000c46000c48000c4a000c4d"
           \o "000c55000c56000c62000c63000c81000c81000cbc000cbc000cbf000cbf"
           \o "000cc6000cc6000ccc000ccd000ce2000ce3000d00000d01000d3b000d3c"
           \o "000d41000d44000d4d000d4d000d62000d63000d81000d81000dca000dca"
           \o "000dd2000dd4000dd6000dd6000e31000e31000e34000e3a000e46000e4e"
           \o "000eb1000eb1000eb4000ebc000ec6000ec6000ec8000ecd000f18000f19"
           \o "000f35000f35000f37000f37000f39000f39000f71000f7e000f80000f84"
           \o "000f86000f87000f8d000f97000f99000fbc000fc6000fc600102d001030"
           \o "00103200103700103900103a00103d00103e00105800105900105e001060"
           \o "00107100107400108200108200108500108600108d00108d00109d00109d"
           \o "0010fc0010fc00135d00135f001712001714001732001733001752001753"
           \o "0017720017730017b40017b50017b70017bd0017c60017c60017c90017d3"
           \o "0017d70017d70017dd0017dd00180b00180f001843001843001885001886"
           \o "0018a90018a900192000192200192700192800193200193200193900193b"
           \o "001a17001a18001a1b001a1b001a56001a56001a58001a5e001a60001a60"
           \o "001a62001a62001a65001a6c001a73001a7c001a7f001a7f001aa7001aa7"
           \o "001ab0001ace001b00001b03001b34001b34001b36001b3a001b3c001b3c"
           \o "001b42001b42001b6b001b73001b80001b81001ba2001ba5001ba8001ba9"
           \o "001bab001bad001be6001be6001be8001be9001bed001bed001bef001bf1"
           \o "001c2c001c33001c36001c37001c78001c7d001cd0001cd2001cd4001ce0"
           \o "001ce2001ce8001ced001ced001cf4001cf4001cf8001cf9001d2c001d6a"
           \o "001d78001d78001d9b001dff001fbd001fbd001fbf001fc1001fcd001fcf"
           \o "001fdd001fdf001fed001fef001ffd001ffe00200b00200f002018002019"
           \o "00202400202400202700202700202a00202e00206000206400206600206f"
           \o "00207100207100207f00207f00209000209c0020d00020f0002c7c002c7d"
           \o "002cef002cf1002d6f002d6f002d7f002d7f002de0002dff002e2f002e2f"
           \o "00300500300500302a00302d00303100303500303b00303b00309900309e"
           \o "0030fc0030fe00a01500a01500a4f800a4fd00a60c00a60c00a66f00a672"
           \o "00a67400a67d00a67f00a67f00a69c00a69f00a6f000a6f100a70000a721"
           \o "00a77000a77000a78800a78a00a7f200a7f400a7f800a7f900a80200a802"
           \o "00a80600a80600a80b00a80b00a82500a82600a82c00a82c00a8c400a8c5"
           \o "00a8e000a8f100a8ff00a8ff00a92600a92d00a94700a95100a98000a982"
           \o "00a9b300a9b300a9b600a9b900a9bc00a9bd00a9cf00a9cf00a9e500a9e6"
           \o "00aa2900aa2e00aa3100aa3200aa3500aa3600aa4300aa4300aa4c00aa4c"
           \o "00aa7000aa7000aa7c00aa7c00aab000aab000aab200aab400aab700aab8"
           \o "00aabe00aabf00aac100aac100aadd00aadd00aaec00aaed00aaf300aaf4"
           \o "00aaf600aaf600ab5b00ab5f00ab6900ab6b00abe500abe500abe800abe8"
           \o "00abed00abed00fb1e00fb1e00fbb200fbc200fe0000fe0f00fe1300fe13"
           \o "00fe2000fe2f00fe5200fe5200fe5500fe5500feff00feff00ff0700ff07"
           \o "00ff0e00ff0e00ff1a00ff1a00ff3e00ff3e00ff4000ff4000ff7000ff70"
           \o "00ff9e00ff9f00ffe300ffe300fff900fffb0101fd0101fd0102e00102e0"
           \o "01037601037a0107800107850107870107b00107b20107ba010a01010a03"
           \o "010a05010a06010a0c010a0f010a38010a3a010a3f010a3f010ae5010ae6"
           \o "010d24010d27010eab010eac010f46010f50010f82010f85011001011001"
           \o "01103801104601107001107001107301107401107f0110810110b30110b6"
           \o "0110b90110ba0110bd0110bd0110c20110c20110cd0110cd011100011102"
           \o "01112701112b01112d0111340111730111730111800111810111b60111be"
           \o "0111c90111cc0111cf0111cf01122f011231011234011234011236011237"
           \o "01123e01123e0112df0112df0112e30112ea01130001130101133b01133c"
           \o "01134001134001136601136c01137001137401143801143f011442011444"
           \o "01144601144601145e01145e0114b30114b80114ba0114ba0114bf0114c0"
           \o "0114c20114c30115b20115b50115bc0115bd0115bf0115c00115dc0115dd"
           \o "01163301163a01163d01163d01163f0116400116ab0116ab0116ad0116ad"
           \o "0116b00116b50116b70116b701171d01171f01172201172501172701172b"
           \o "01182f01183701183901183a01193b01193c01193e01193e011943011943"
           \o "0119d40119d70119da0119db0119e00119e0011a01011a0a011a33011a38"
           \o "011a3b011a3e011a47011a47011a51011a56011a59011a5b011a8a011a96"
           \o "011a98011a99011c30011c36011c38011c3d011c3f011c3f011c92011ca7"
           \o "011caa011cb0011cb2011cb3011cb5011cb6011d31011d36011d3a011d3a"
           \o "011d3c011d3d011d3f011d45011d47011d47011d90011d91011d95011d95"
           \o "011d97011d97011ef3011ef4013430013438016af0016af4016b30016b36"
           \o "016b40016b43016f4f016f4f016f8f016f9f016fe0016fe1016fe3016fe4"
           \o "01aff001aff301aff501affb01affd01affe01bc9d01bc9e01bca001bca3"
           \o "01cf0001cf2d01cf3001cf4601d16701d16901d17301d18201d18501d18b"
           \o "01d1aa01d1ad01d24201d24401da0001da3601da3b01da6c01da7501da75"
           \o "01da8401da8401da9b01da9f01daa101daaf01e00001e00601e00801e018"
           \o "01e01b01e02101e02301e02401e02601e02a01e13001e13d01e2ae01e2ae"
           \o "01e2ec01e2ef01e8d001e8d601e94401e94b01f3fb01f3ff0e00010e0001"
           \o "0e00200e007f0e01000e01ef")

CasedLetters ==
    Ranges("00004100005a00006100007a0000aa0000aa0000b50000b50000ba0000ba"
           \o "0000c00000d60000d80000f60000f80001ba0001bc0001bf0001c4000293"
           \o "0002950002af00037000037300037600037700037b00037d00037f00037f"
           \o "00038600038600038800038a00038c00038c00038e0003a10003a30003f5"
           \o "0003f700048100048a00052f0005310005560005600005880010a00010c5"
           \o "0010c70010c70010cd0010cd0010d00010fa0010fd0010ff0013a00013f5"
           \o "0013f80013fd001c80001c88001c90001cba001cbd001cbf001d00001d2b"
           \o "001d6b001d77001d79001d9a001e00001f15001f18001f1d001f20001f45"
           \o "001f48001f4d001f50001f57001f59001f59001f5b001f5b001f5d001f5d"
           \o "001f5f001f7d001f80001fb4001fb6001fbc001fbe001fbe001fc2001fc4"
           \o "001fc6001fcc001fd0001fd3001fd6001fdb001fe0001fec001ff2001ff4"
           \o "001ff6001ffc00210200210200210700210700210a002113002115002115"
           \o "00211900211d00212400212400212600212600212800212800212a00212d"
           \o "00212f00213400213900213900213c00213f00214500214900214e00214e"
           \o "00216000217f0021830021840024b60024e9002c00002c7b002c7e002ce4"
           \o "002ceb002cee002cf2002cf3002d00002d25002d27002d27002d2d002d2d"
           \o "00a64000a66d00a68000a69b00a72200a76f00a77100a78700a78b00a78e"
           \o "00a79000a7ca00a7d000a7d100a7d300a7d300a7d500a7d900a7f500a7f6"
           \o "00a7fa00a7fa00ab3000ab5a00ab6000ab6800ab7000abbf00fb0000fb06"
           \o "00fb1300fb1700ff2100ff3a00ff4100ff5a01040001044f0104b00104d3"
           \o "0104d80104fb01057001057a01057c01058a01058c010592010594010595"
           \o "0105970105a10105a30105b10105b30105b90105bb0105bc010c80010cb2"
           \o "010cc0010cf20118a00118df016e40016e7f01d40001d45401d45601d49c"
           \o "01d49e01d49f01d4a201d4a201d4a501d4a601d4a901d4ac01d4ae01d4b9"
           \o "01d4bb01d4bb01d4bd01d4c301d4c501d50501d50701d50a01d50d01d514"
           \o "01d51601d51c01d51e01d53901d53b01d53e01d54001d54401d54601d546"
           \o "01d54a01d55001d55201d6a501d6a801d6c001d6c201d6da01d6dc01d6fa"
           \o "01d6fc01d71401d71601d73401d73601d74e01d75001d76e01d77001d788"
           \o "01d78a01d7a801d7aa01d7c201d7c401d7cb01df0001df0901df0b01df1e"
           \o "01e90001e94301f13001f14901f15001f16901f17001f189")

DecimalZeros ==
    Zeros("0000300006600006f00007c00009660009e6000a66000ae6000b66000be6"
          \o "000c66000ce6000d66000de6000e50000ed0000f200010400010900017e0"
          \o "0018100019460019d0001a80001a90001b50001bb0001c40001c5000a620"
          \o "00a8d000a90000a9d000a9f000aa5000abf000ff100104a0010d30011066"
          \o "0110f00111360111d00112f00114500114d00116500116c00117300118e0"
          \o "011950011c50011d50011da0016a60016ac0016b5001d7ce01d7d801d7e2"
          \o "01d7ec01d7f601e14001e2f001e95001fbf0")

\* the entries of a sequence
Range(s) == {s[k] : k \in 1..Len(s)}

\* n is in one of the ranges <<lo, hi>> of `table`
InRanges(n, table) == \E r \in Range(table) : r[1] <= n /\ n <= r[2]

\* n is on the run <<lo, hi, step, to>>
OnRun(n, run) == run[1] <= n /\ n <= run[2] /\ (n - run[1]) % run[3] = 0

\* ord(chr(n).lower()) where that is one character (an ASCII one without
\* the table, as CPython has it)
ToLower(n) ==
    IF n < 128 THEN (IF n \in 65..90 THEN n + 32 ELSE n)
    ELSE TheOne({IF runs = {} THEN n
                 ELSE TheOne({n - run[1] + run[4] : run \in runs}) :
                   runs \in {{run \in Range(LowerRuns) : OnRun(n, run)}}})

\* the capital sigma cps[i] ends a word: the nearest character before it
\* that is not case-ignorable is cased, and the nearest one after it is not
final_sigma(cps, i) ==
    TheOne({
        TheOne({/\ before # {}
                /\ Greatest(before \cup {1}) \in cased
                /\ (after = {} \/ Least(after \cup {Len(cps)}) \notin cased) :
                  before \in {{j \in solid : j < i}},
                  after  \in {{j \in solid : j > i}},
                  cased  \in {{j \in solid : InRanges(cps[j], CasedLetters)}}}) :
        solid \in {{j \in 1..Len(cps) : ~InRanges(cps[j], CaseIgnorable)}}})

\* what str.lower() makes of the character cps[i]: U+0130 becomes two
\* characters, the capital sigma the final or the medial small one
LowerChar(cps, i) ==
    TheOne({Join("", [k \in 1..Len(out) |-> Chr(out[k])], 1, Len(out)) :
              out \in {CASE cps[i] = 304 -> <<105, 775>>
                         [] cps[i] = 931 -> IF final_sigma(cps, i) THEN <<962>>
                                            ELSE <<963>>
                         [] OTHER        -> <<ToLower(cps[i])>>}})

\* x.lower()
Lower(x) ==
    TheOne({Join("", [i \in 1..Len(cps) |-> LowerChar(cps, i)], 1, Len(cps)) :
              cps \in {Codes(x)}})

\* pname.lower().replace(" ", "")
LowerNoSpace(x) ==
    TheOne({Join("", [k \in 1..Len(us) |-> IF us[k] = " " THEN "" ELSE us[k]],
                 1, Len(us)) :
              us \in {Units(Lower(x))}})

\* the characters str.isspace() holds of: \t, \n, \r, \f and the code points
\* 0B, 1C to 20, 85 and A0, and above FF the code points 1680, 2000 to 200A,
\* 2028, 2029, 202F, 205F and 3000
Whitespace ==
    {Chr(n) : n \in (9..13) \cup (28..32) \cup (8192..8202)
                    \cup {133, 160, 5760, 8232, 8233, 8239, 8287, 12288}}

\* the characters int() drops around the number: those of str.isspace()
\* but the code points 1C, 1D, 1E and 1F, on which it raises ValueError
IntSpace == {c \in Whitespace : Ord(c) \notin 28..31}

\* the characters us without those of `blanks` at the two ends
StripUnits(us, blanks) ==
    TheOne({IF keep = {} THEN <<>> ELSE SubSeq(us, Least(keep), Greatest(keep)) :
              keep \in {{k \in 1..Len(us) : us[k] \notin blanks}}})

\* x without the characters of `blanks` at its two ends
StripOf(x, blanks) ==
    TheOne({TheOne({Join("", kept, 1, Len(kept)) :
                      kept \in {StripUnits(us, blanks)}}) :
              us \in {Units(x)}})

\* x.strip()
Strip(x) == StripOf(x, Whitespace)

\* the value of the decimal digit c as int() reads it (the ten digits of
\* every script count), None for what is no digit
DecimalOf(c) ==
    TheOne({IF ds = {} THEN None ELSE TheOne(ds) :
              ds \in {TheOne({{n - z : z \in {y \in Range(DecimalZeros) :
                                                n - y \in 0..9}} :
                                n \in {Ord(c)}})}})

\* the value of a string of ASCII digits, as the decoder of JSON reads an
\* integer
RECURSIVE DigitsValue(_, _)
DigitsValue(x, acc) ==
    IF x = "" THEN acc
    ELSE DigitsValue(SubSeq(x, 2, Len(x)), 10 * acc + DigitOf(SubSeq(x, 1, 1)))

\* the value of the digits ds from the k-th on, None standing for an
\* underscore, which int() skips
RECURSIVE DecimalValue(_, _, _)
DecimalValue(ds, k, acc) ==
    IF k > Len(ds) THEN acc
    ELSE DecimalValue(ds, k + 1, IF ds[k] = None THEN acc ELSE 10 * acc + ds[k])

\* the characters us, of the digit values ds, are what int() accepts after
\* the sign: digits, with single underscores between them
IsDigits(us, ds) ==
    /\ us # <<>>
    /\ \A k \in 1..Len(us) :
          \/ ds[k] # None
          \/ /\ us[k] = "_"
             /\ 1 < k /\ k < Len(us)
             /\ ds[k - 1] # None
             /\ ds[k + 1] # None

\* int() has returned k
Returned(k) == [ok |-> TRUE, i |-> k, err |-> ""]

\* int() has raised the exception `kind`
Raises(kind) == [ok |-> FALSE, i |-> 0, err |-> kind]

\* int(x) of a str
ParseInt(x) ==
    TheOne({
        TheOne({
            TheOne({IF IsDigits(body, ds)
                    THEN Returned(IF body # us /\ us[1] = "-"
                                  THEN 0 - DecimalValue(ds, 1, 0)
                                  ELSE DecimalValue(ds, 1, 0))
                    ELSE Raises("ValueError") :
                      ds \in {[k \in 1..Len(body) |-> DecimalOf(body[k])]}}) :
            body \in {IF us # <<>> /\ us[1] \in {"+", "-"} THEN Tail(us) ELSE us}}) :
        us \in {TheOne({StripUnits(all, IntSpace) : all \in {Units(x)}})}})

\* int(v) of a JSON value: a float is truncated (NaN raises ValueError, an
\* infinity OverflowError), a bool is 0 or 1, and None, a list and a dict
\* raise TypeError
PyInt(v) ==
    CASE v.t \in {"int", "bool"} -> Returned(v.i)
      [] v.t = "float" -> IF v.s = "nan" THEN Raises("ValueError")
                          ELSE IF v.s \in {"inf", "-inf"} THEN Raises("OverflowError")
                          ELSE Returned(v.i)
      [] v.t = "str"   -> ParseInt(v.s)
      [] OTHER         -> Raises("TypeError")

\* `try: int(v)  except (ValueError, TypeError): dflt`
IntOr(v, dflt) == TheOne({IF r.ok THEN r.i ELSE dflt : r \in {PyInt(v)}})

-----------------------------------------------------------------------------
(* Constants of the program                                                *)

PPQN == 24

MAX_NOTES == 8

GateScale == 100

\* gate_left = -1.0 (sustain until a non-tie step), in hundredths
Sustain == -100

\* one pulse (1.0) in hundredths
OnePulse == 100

-----------------------------------------------------------------------------
(* Rhythm division                                                         *)

\* a division string: a base and a suffix, e.g. "1/16" and "t"
Division(b, x) == b \o x

DIVISION_BASE(b) ==
    CASE b = "1"    -> 4 * PPQN
      [] b = "1/2"  -> 2 * PPQN
      [] b = "1/4"  -> PPQN
      [] b = "1/8"  -> PPQN \div 2
      [] b = "1/16" -> PPQN \div 4
      [] b = "1/32" -> PPQN \div 8
      [] OTHER      -> PPQN \div 4

\* int(x) truncates; the operands are positive, so it is the floor
parse_division(s0) ==
    TheOne({
        LET last    == IF s = "" THEN "" ELSE Last(s)
            dotted  == last = "d"
            triplet == last = "t"
            quint   == last = "q"
            s_base  == IF dotted \/ triplet \/ quint THEN SubSeq(s, 1, Len(s) - 1)
                       ELSE s
            pulses  == DIVISION_BASE(s_base)
            scaled  == CASE dotted  -> (pulses * 3) \div 2
                         [] triplet -> (pulses * 2) \div 3
                         [] quint   -> (pulses * 4) \div 5
                         [] OTHER   -> pulses
        IN  Max(1, scaled) :
        s \in {Lower(Strip(s0))}})

-----------------------------------------------------------------------------
(* The text of config.json: what the editor writes (json.dumps, indent 2)  *)
(* and what load_config makes of a text (lines 140-152)                    *)

\* x[k - 1 :].startswith(word)
StartsAt(x, k, word) ==
    /\ k >= 1
    /\ k + Len(word) - 1 <= Len(x)
    /\ SubSeq(x, k, k + Len(word) - 1) = word

\* the first index from k on that holds a character of `stops`, or the one
\* past the end of x
Until(x, k, stops) ==
    CHOOSE j \in k..(Len(x) + 1) :
        /\ j = Len(x) + 1 \/ At(x, j) \in stops
        /\ \A i \in k..(j - 1) : At(x, i) \notin stops

\* the first index from k on that holds no character of `chars`: where a
\* match of [chars]* that starts at k ends
Past(x, k, chars) ==
    IF At(x, k) \notin chars THEN k
    ELSE CHOOSE j \in (k + 1)..(Len(x) + 1) :
             /\ At(x, j) \notin chars
             /\ \A i \in k..(j - 1) : At(x, i) \in chars

\* the boundaries of str.splitlines(): \n, \r, \f and the code points 0B,
\* 1C, 1D, 1E, 85, 2028 and 2029
LineBreaks ==
    {"\n", "\r", "\f", Chr(11), Chr(28), Chr(29), Chr(30), Chr(133), Chr(8232),
     Chr(8233)}

\* raw.splitlines(): "\r\n" is one boundary, and no empty line follows a
\* boundary that ends the text
LinesAt(raw, breaks) ==
    LET width(k) == IF At(raw, k) = "\r" /\ At(raw, k + 1) = "\n" THEN 2
                    ELSE IF At(raw, k) = Mark THEN 7 ELSE 1
        nth(i)   == CHOOSE k \in breaks :
                        Cardinality({q \in breaks : q < k}) = i - 1
        n        == Cardinality(breaks)
        start(i) == IF i = 1 THEN 1 ELSE nth(i - 1) + width(nth(i - 1))
        whole    == [i \in 1..n |-> SubSeq(raw, start(i), nth(i) - 1)]
    IN  IF start(n + 1) <= Len(raw)
        THEN whole \o <<SubSeq(raw, start(n + 1), Len(raw))>>
        ELSE whole

splitlines(raw) ==
    TheOne({LinesAt(raw, breaks) :
              breaks \in {{k \in 1..Len(raw) :
                             /\ \/ At(raw, k) \in LineBreaks
                                \/ /\ At(raw, k) = Mark
                                   /\ SubSeq(raw, k, k + 6) \in LineBreaks
                             /\ ~(At(raw, k) = "\n" /\ At(raw, k - 1) = "\r")}}})

\* one turn of the loop of lines 144-151: the line without what follows its
\* first "//", unless an odd number of double quotes stands before it
strip_comment(line) ==
    LET at == {k \in 1..(Len(line) - 1) : SubSeq(line, k, k + 1) = "//"}
    IN  IF at = {} THEN line
        ELSE LET before == SubSeq(line, 1, Least(at) - 1)
                 quotes == Cardinality({k \in 1..Len(before) :
                                          At(before, k) = "\""})
             IN  IF quotes % 2 = 0 THEN before ELSE line

\* filtered_lines once the loop has run
filtered_lines(raw) ==
    TheOne({[i \in 1..Len(lines) |-> strip_comment(lines[i])] :
              lines \in {splitlines(raw)}})

\* ---- json.loads ----

\* a dict with key set to v: a key already there keeps its place
Put(items, key, v) ==
    IF \E k \in 1..Len(items) : items[k][1] = key
    THEN [k \in 1..Len(items) |->
             IF items[k][1] = key THEN <<key, v>> ELSE items[k]]
    ELSE Append(items, <<key, v>>)

\* what a scan gives: the value and the index after it, or no value
Parsed(v, k) == [ok |-> TRUE, v |-> v, k |-> k]

Failed == [ok |-> FALSE, v |-> NullV, k |-> 0]

\* json.decoder WHITESPACE
JsonSpace == {" ", "\t", "\n", "\r"}

\* the characters a strict decoder refuses inside a string, those below
\* 20 (hex): the ones of 2..1F, and 0 and 1 behind the mark
ControlChars == {Chr(n) : n \in 2..31}

\* json.decoder BACKSLASH
BACKSLASH(c) ==
    CASE c = "\"" -> "\"" [] c = "\\" -> "\\" [] c = "/" -> "/"
      [] c = "b" -> Chr(8) [] c = "f" -> "\f" [] c = "n" -> "\n"
      [] c = "r" -> "\r" [] c = "t" -> "\t" [] OTHER -> ""

\* the character of the escape \uXXXX whose digits stand at x[k .. k + 3],
\* and the index after it: a high surrogate that the escape of a low one
\* follows makes one character with it
Unicode(x, k) ==
    TheOne({IF /\ uni \in 55296..56319
               /\ StartsAt(x, k + 4, "\\u")
               /\ \A i \in (k + 6)..(k + 9) : HexOf(At(x, i)) # None
               /\ HexAt(x, k + 6, 4) \in 56320..57343
            THEN [s |-> Chr(65536 + 1024 * (uni - 55296)
                            + (HexAt(x, k + 6, 4) - 56320)),
                  k |-> k + 10]
            ELSE [s |-> Chr(uni), k |-> k + 4] :
              uni \in {HexAt(x, k, 4)}})

\* scanstring (strict): the string whose opening quote stands before k
RECURSIVE scanstring(_, _, _)
scanstring(x, k, acc) ==
    TheOne({
        LET c == At(x, j)
            e == At(x, j + 1)
        IN  IF c = "\"" THEN Parsed(s, j + 1)
            ELSE IF c = Mark
            THEN IF Ord(SubSeq(x, j, j + 6)) >= 32
                 THEN scanstring(x, j + 7, s \o SubSeq(x, j, j + 6))
                 ELSE Failed
            ELSE IF c # "\\" THEN Failed
            ELSE IF e = "u"
            THEN IF \A i \in (j + 2)..(j + 5) : HexOf(At(x, i)) # None
                 THEN scanstring(x, Unicode(x, j + 2).k, s \o Unicode(x, j + 2).s)
                 ELSE Failed
            ELSE IF BACKSLASH(e) # ""
            THEN scanstring(x, j + 2, s \o BACKSLASH(e))
            ELSE Failed :
        j \in {Until(x, k, {"\"", "\\", Mark} \cup ControlChars)},
        s \in {acc \o SubSeq(x, k, Until(x, k, {"\"", "\\", Mark}
                                             \cup ControlChars) - 1)}})

RECURSIVE Pow10(_)
Pow10(n) == IF n = 0 THEN 1 ELSE 10 * Pow10(n - 1)

\* x without its zeros at the right
RECURSIVE NoZerosRight(_)
NoZerosRight(x) ==
    IF x # "" /\ SubSeq(x, Len(x), Len(x)) = "0"
    THEN NoZerosRight(SubSeq(x, 1, Len(x) - 1))
    ELSE x

\* repr() of the float ip + fp / p, p a power of ten with `width` zeros:
\* the shortest digits, an exponent below 0.0001 (values under 1e16 in
\* size, as the integers of the model are)
float_repr(ip, fp, width) ==
    TheOne({
        IF ip = 0 /\ fp # 0 /\ zeros >= 4
        THEN SubSeq(sig, 1, 1)
             \o (IF Len(sig) > 1 THEN "." \o SubSeq(sig, 2, Len(sig)) ELSE "")
             \o "e-" \o (IF zeros < 9 THEN "0" ELSE "") \o ToString(zeros + 1)
        ELSE ToString(ip) \o "."
             \o (IF fp = 0 THEN "0"
                 ELSE Join("", [k \in 1..zeros |-> "0"], 1, zeros) \o sig) :
        zeros \in {width - Len(ToString(fp))},
        sig   \in {NoZerosRight(ToString(fp))}})

\* the float of the digits m scaled by 10^scale: what int() makes of it and
\* its repr()
float_of(neg, m, scale) ==
    TheOne({
        FloatV(IF neg THEN 0 - ip ELSE ip,
               (IF neg THEN "-" ELSE "") \o float_repr(ip, fp, 0 - scale)) :
        ip \in {IF scale < 0 THEN m \div Pow10(0 - scale) ELSE m * Pow10(scale)},
        fp \in {IF scale < 0 THEN m % Pow10(0 - scale) ELSE 0}})

\* where the digits that start at k end
DigitsEnd(x, k) == Past(x, k, Digits)

\* the exponent written from f1 on: where its digits start and end (both f1
\* when there is none)
ExponentAt(x, f1) ==
    TheOne({[from |-> IF e0 > f1 /\ At(x, e0) \in Digits THEN e0 ELSE f1,
             to   |-> IF e0 > f1 /\ At(x, e0) \in Digits
                      THEN DigitsEnd(x, e0) ELSE f1] :
              e0 \in {IF At(x, f1) \in {"e", "E"}
                      THEN IF At(x, f1 + 1) \in {"+", "-"} THEN f1 + 2 ELSE f1 + 1
                      ELSE f1}})

\* the number whose digits stand at i0..i1-1, its fraction up to f1 and its
\* exponent at e
number_of(x, k, i0, i1, f1, e) ==
    IF f1 = i1 /\ e.to = f1
    THEN Parsed(IntV((IF i0 > k THEN -1 ELSE 1)
                     * DigitsValue(SubSeq(x, i0, i1 - 1), 0)), i1)
    ELSE Parsed(float_of(i0 > k,
                         DigitsValue(SubSeq(x, i0, i1 - 1)
                                     \o SubSeq(x, i1 + 1, f1 - 1), 0),
                         (IF e.to = f1 THEN 0
                          ELSE (IF At(x, f1 + 1) = "-" THEN -1 ELSE 1)
                               * DigitsValue(SubSeq(x, e.from, e.to - 1), 0))
                         - (IF f1 > i1 THEN f1 - i1 - 1 ELSE 0)),
                e.to)

\* what follows the integer part i0..i1-1 of a number
number_from(x, k, i0, i1) ==
    TheOne({number_of(x, k, i0, i1, f1, ExponentAt(x, f1)) :
              f1 \in {IF At(x, i1) = "." /\ At(x, i1 + 1) \in Digits
                      THEN DigitsEnd(x, i1 + 1) ELSE i1}})

\* NUMBER_RE matched at k: (-?(?:0|[1-9]\d*))(\.\d+)?([eE][-+]?\d+)?
match_number(x, k) ==
    TheOne({IF i1 = i0 THEN Failed ELSE number_from(x, k, i0, i1) :
              i0 \in {IF At(x, k) = "-" THEN k + 1 ELSE k},
              i1 \in {IF At(x, IF At(x, k) = "-" THEN k + 1 ELSE k) = "0"
                      THEN (IF At(x, k) = "-" THEN k + 2 ELSE k + 1)
                      ELSE DigitsEnd(x, IF At(x, k) = "-" THEN k + 1 ELSE k)}})

\* the scanner of json.scanner on the value that starts at k, JSONArray and
\* JSONObject of json.decoder past their opening bracket
RECURSIVE scan_once(_, _), JSONArray(_, _, _), JSONObject(_, _, _)
scan_once(x, k) ==
    LET c == At(x, k)
    IN  CASE c = "\"" ->
                 TheOne({IF string.ok THEN Parsed(StrV(string.v), string.k)
                         ELSE Failed :
                           string \in {scanstring(x, k + 1, "")}})
          [] c = "{" ->
                 LET j == Past(x, k + 1, JsonSpace)
                 IN  IF At(x, j) = "}" THEN Parsed(DictV(<<>>), j + 1)
                     ELSE IF At(x, j) = "\"" THEN JSONObject(x, j, <<>>)
                     ELSE Failed
          [] c = "[" ->
                 LET j == Past(x, k + 1, JsonSpace)
                 IN  IF At(x, j) = "]" THEN Parsed(ListV(<<>>), j + 1)
                     ELSE JSONArray(x, j, <<>>)
          [] c = "n" /\ StartsAt(x, k, "null") -> Parsed(NullV, k + 4)
          [] c = "t" /\ StartsAt(x, k, "true") -> Parsed(BoolV(TRUE), k + 4)
          [] c = "f" /\ StartsAt(x, k, "false") -> Parsed(BoolV(FALSE), k + 5)
          [] OTHER ->
                 TheOne({IF number.ok THEN number
                         ELSE IF StartsAt(x, k, "NaN")
                         THEN Parsed(FloatV(0, "nan"), k + 3)
                         ELSE IF StartsAt(x, k, "Infinity")
                         THEN Parsed(FloatV(0, "inf"), k + 8)
                         ELSE IF StartsAt(x, k, "-Infinity")
                         THEN Parsed(FloatV(0, "-inf"), k + 9)
                         ELSE Failed :
                           number \in {match_number(x, k)}})

\* the values of a list from the one at k on, `values` being those before
JSONArray(x, k, values) ==
    TheOne({
        LET end == Past(x, value.k, JsonSpace)
        IN  IF ~value.ok THEN Failed
            ELSE IF At(x, end) = "]"
            THEN Parsed(ListV(Append(values, value.v)), end + 1)
            ELSE IF At(x, end) = ","
            THEN TheOne({JSONArray(x, next, more) :
                           next \in {Past(x, end + 1, JsonSpace)},
                           more \in {Append(values, value.v)}})
            ELSE Failed :
        value \in {scan_once(x, k)}})

\* the pairs of a dict from the key whose quote is at k on
JSONObject(x, k, pairs) ==
    TheOne({
        LET colon == Past(x, key.k, JsonSpace)
        IN  IF ~key.ok \/ At(x, colon) # ":" THEN Failed
            ELSE TheOne({
                LET end == Past(x, value.k, JsonSpace)
                IN  IF ~value.ok THEN Failed
                    ELSE IF At(x, end) = "}"
                    THEN Parsed(DictV(Put(pairs, key.v, value.v)), end + 1)
                    ELSE IF At(x, end) = ","
                    THEN TheOne({IF At(x, next) = "\""
                                 THEN JSONObject(x, next, more) ELSE Failed :
                                   next \in {Past(x, end + 1, JsonSpace)},
                                   more \in {Put(pairs, key.v, value.v)}})
                    ELSE Failed :
                value \in {scan_once(x, Past(x, colon + 1, JsonSpace))}}) :
        key \in {scanstring(x, k + 1, "")}})

\* json.loads(text): [ok |-> FALSE] where it raises JSONDecodeError
json_loads(text) ==
    TheOne({IF obj.ok /\ Past(text, obj.k, JsonSpace) = Len(text) + 1
            THEN [ok |-> TRUE, v |-> obj.v]
            ELSE [ok |-> FALSE, v |-> NullV] :
              obj \in {scan_once(text, Past(text, 1, JsonSpace))}})

\* `data` of line 152 for the text raw of config.json
read_config(raw) ==
    TheOne({json_loads(text) :
              text \in {TheOne({Join("\n", lines, 1, Len(lines)) :
                                  lines \in {filtered_lines(raw)}})}})

\* ---- json.dumps(data, indent=2) (config_editor.py line 936) ----

\* json.encoder ESCAPE_ASCII / ESCAPE_DCT on one character: what is not
\* printable ASCII is written \uXXXX, a code point above FFFF as the two
\* surrogates of it
escape(c) ==
    CASE c = "\"" -> "\\\"" [] c = "\\" -> "\\\\" [] c = "\n" -> "\\n"
      [] c = "\r" -> "\\r" [] c = "\t" -> "\\t" [] c = "\f" -> "\\f"
      [] c = Chr(8) -> "\\b"
      [] OTHER ->
             TheOne({IF n \in 32..126 THEN c
                     ELSE IF n < 65536 THEN "\\u" \o Hex4(n)
                     ELSE "\\u" \o Hex4(55296 + ((n - 65536) \div 1024))
                          \o "\\u" \o Hex4(56320 + ((n - 65536) % 1024)) :
                       n \in {Ord(c)}})

\* encode_basestring_ascii
encode_basestring_ascii(x) ==
    TheOne({"\"" \o Join("", [k \in 1..Len(us) |-> escape(us[k])], 1, Len(us))
            \o "\"" :
              us \in {Units(x)}})

\* float.__repr__ as the encoder writes it
floatstr(v) ==
    CASE v.s = "nan" -> "NaN" [] v.s = "inf" -> "Infinity"
      [] v.s = "-inf" -> "-Infinity" [] OTHER -> v.s

\* the text of the value v written at the nesting `level`
RECURSIVE dumps(_, _)
dumps(v, level) ==
    LET n       == Len(v.items)
        indent  == Join("", [k \in 1..(2 * (level + 1)) |-> " "], 1, 2 * (level + 1))
        outdent == Join("", [k \in 1..(2 * level) |-> " "], 1, 2 * level)
    IN  CASE v.t = "null"  -> "null"
          [] v.t = "bool"  -> IF v.i = 1 THEN "true" ELSE "false"
          [] v.t = "int"   -> ToString(v.i)
          [] v.t = "float" -> floatstr(v)
          [] v.t = "str"   -> encode_basestring_ascii(v.s)
          [] v.t = "list"  ->
                 IF n = 0 THEN "[]"
                 ELSE "[\n"
                      \o Join(",\n", [k \in 1..n |->
                                 indent \o dumps(v.items[k], level + 1)], 1, n)
                      \o "\n" \o outdent \o "]"
          [] v.t = "dict"  ->
                 IF n = 0 THEN "{}"
                 ELSE "{\n"
                      \o Join(",\n", [k \in 1..n |->
                                 indent \o encode_basestring_ascii(v.items[k][1])
                                 \o ": " \o dumps(v.items[k][2], level + 1)], 1, n)
                      \o "\n" \o outdent \o "}"

-----------------------------------------------------------------------------
(* load_config                                                             *)
(*                                                                         *)
(* `data` is the JSON object of config.json:                               *)
(*   "input_channel": a JSON value,                                        *)
(*   "output_channels": a dict name -> channel,                             *)
(*   "patterns": a dict name -> raw pattern, a dict with any of the keys   *)
(*    the code reads.                                                      *)

default_pattern(name) ==
    LET steps == IF Contains(name, "1")
                 THEN [k \in 1..8 |-> IntV(k)]
                 ELSE [k \in 1..8 |-> IntV(9 - k)]
    IN  DictV(<<<<"length", IntV(Len(steps))>>, <<"steps", ListV(steps)>>>>)

\* the normalised velocity; an exception other than ValueError is not
\* caught there (see pattern_raises)
norm_velocity(v) ==
    IF IsStr(v) /\ Upper(v.s) = "R" THEN StrV("R")
    ELSE IntV(Clamp(1, 127, IntOr(v, 100)))

norm_vrandom(v) == Clamp(0, 100, IntOr(v, 0))

norm_sprob(v) == Clamp(0, 100, IntOr(v, 100))

norm_soct(v) == Clamp(-2, 2, IntOr(v, 0))

norm_gate(v) ==
    IF IsStr(v) /\ Upper(v.s) = "T" THEN StrV("T")
    ELSE IntV(Clamp(1, 100, IntOr(v, 100)))

\* the normalisation of one entry of the per-step list `key`
norm_entry(key, v) ==
    CASE key = "velocity" -> norm_velocity(v)
      [] key = "vrandom"  -> norm_vrandom(v)
      [] key = "sprob"    -> norm_sprob(v)
      [] key = "soct"     -> norm_soct(v)
      [] key = "gate"     -> norm_gate(v)

\* one per-step list: default when missing or falsy, else truncated to
\* `length`, normalised entry by entry and right-padded with the default
norm_list(key, raw, length, dflt) ==
    IF ~Truthy(raw) THEN Repeat(dflt, length)
    ELSE LET cut == Slice(Entries(raw), length)
         IN  PadTo([k \in 1..Len(cut) |-> norm_entry(key, cut[k])], length, dflt)

\* the exceptions of int() the loop of the per-step list `key` catches
Caught(key) ==
    IF key = "velocity" THEN {"ValueError"} ELSE {"ValueError", "TypeError"}

\* the per-step list `key` raises: it is truthy and cannot be sliced, or
\* int() of one of its first `length` entries raises what is not caught
list_raises(key, raw, length) ==
    /\ Truthy(raw)
    /\ \/ ~Sliceable(raw)
       \/ LET cut == Slice(Entries(raw), length)
          IN  \E k \in 1..Len(cut) :
                  /\ ~PyInt(cut[k]).ok
                  /\ PyInt(cut[k]).err \notin Caught(key)

\* the raw pattern of an output (lines 171-173): its entry in "patterns",
\* else the entry of its alias, else the default; a falsy entry ({}, null,
\* 0, "") counts as missing
raw_pattern(name, patterns_raw) ==
    LET first == Get(patterns_raw, name, NullV)
        found == IF Truthy(first) THEN first
                 ELSE Get(patterns_raw, LowerNoSpace(name), NullV)
    IN  IF Truthy(found) THEN found ELSE default_pattern(name)

\* pconf.get("length", len(pconf.get("steps", [])))
raw_length(pconf) ==
    Get(pconf, "length", IntV(PyLen(Get(pconf, "steps", ListV(<<>>)))))

\* pconf.get("velocity", pconf.get("velocities", []))
raw_velocity(pconf) ==
    Get(pconf, "velocity", Get(pconf, "velocities", ListV(<<>>)))

\* the raw per-step list `key` of lines 177, 199, 214, 229 and 247
raw_list(key, pconf) ==
    CASE key = "velocity" -> raw_velocity(pconf)
      [] key = "vrandom"  -> Get(pconf, "v-random", Get(pconf, "vrandom", ListV(<<>>)))
      [] key = "sprob"    -> Get(pconf, "s-prob", Get(pconf, "sprob", ListV(<<>>)))
      [] key = "soct"     -> Get(pconf, "s-oct", Get(pconf, "soct", ListV(<<>>)))
      [] key = "gate"     -> Get(pconf, "gate", ListV(<<>>))

\* steps_list of line 175: the first 16 entries of "steps"
raw_steps(pconf) == Slice(Entries(Get(pconf, "steps", ListV(<<>>))), 16)

\* `length` once line 180 is passed
list_length(pconf) ==
    IF raw_steps(pconf) = <<>> THEN 8 ELSE PyInt(raw_length(pconf)).i

\* the loading of a pattern raises: pconf is no dict (it has no get),
\* "steps" has no len() or cannot be sliced, int() of "length" or of
\* "oktawa" raises, or a per-step list does (lines 174-262)
pattern_raises(pconf) ==
    \/ pconf.t # "dict"
    \/ ~HasLen(Get(pconf, "steps", ListV(<<>>)))
    \/ ~PyInt(raw_length(pconf)).ok
    \/ ~Sliceable(Get(pconf, "steps", ListV(<<>>)))
    \/ ~PyInt(Get(pconf, "oktawa", IntV(0))).ok
    \/ \E key \in {"velocity", "vrandom", "sprob", "soct", "gate"} :
           list_raises(key, raw_list(key, pconf), list_length(pconf))

\* str(pconf.get("division", "1/16")): the digits of an int, the repr() of
\* a float, "True", "False" or "None"; the str() of a list or of a dict
\* stands in brackets, so it names no base and has no suffix, and the
\* brackets alone stand for it
division_str(pconf) ==
    LET v == Get(pconf, "division", StrV("1/16"))
    IN  CASE v.t = "str"   -> v.s
          [] v.t = "int"   -> ToString(v.i)
          [] v.t = "float" -> v.s
          [] v.t = "bool"  -> IF v.i = 1 THEN "True" ELSE "False"
          [] v.t = "null"  -> "None"
          [] v.t = "list"  -> "[]"
          [] v.t = "dict"  -> "{}"

\* the pattern configuration of lines 174-274 for the raw pattern pconf
pattern_cfg(name, pconf) ==
    LET steps0     == raw_steps(pconf)
        steps_list == IF steps0 = <<>> THEN Get(default_pattern(name), "steps", NullV).items
                      ELSE steps0
        Lists(length) ==
            [length   |-> Clamp(1, 16, length),
             steps    |-> steps_list,
             octave   |-> Clamp(-5, 5, PyInt(Get(pconf, "oktawa", IntV(0))).i),
             velocity |-> norm_list("velocity", raw_list("velocity", pconf), length,
                                    IntV(100)),
             vrandom  |-> norm_list("vrandom", raw_list("vrandom", pconf), length, 0),
             sprob    |-> norm_list("sprob", raw_list("sprob", pconf), length, 100),
             soct     |-> norm_list("soct", raw_list("soct", pconf), length, 0),
             gate     |-> norm_list("gate", raw_list("gate", pconf), length, IntV(100)),
             pulses   |-> parse_division(division_str(pconf))]
    IN  Lists(IF steps0 = <<>> THEN Len(steps_list) ELSE PyInt(raw_length(pconf)).i)

load_pattern(name, patterns_raw) ==
    TheOne({pattern_cfg(name, pconf) : pconf \in {raw_pattern(name, patterns_raw)}})

\* load_config has raised
Raised_load ==
    [ok |-> FALSE, in_ch |-> 0, out_map |-> <<>>, cfgs |-> <<>>, order |-> <<>>]

\* lines 153-276 on `data`: Raised_load when a line raises (data, the
\* channels or the patterns have no get / items, int() raises, no output
\* is left, a pattern raises), else the input channel, the mapping and the
\* patterns; `order` is the insertion order of out_map and of patterns_cfg
load_data(data) ==
    LET oc           == Get(data, "output_channels", DictV(<<>>))
        patterns_raw == Get(data, "patterns", DictV(<<>>))
        order        == [k \in 1..Len(oc.items) |-> oc.items[k][1]]
        names        == {oc.items[k][1] : k \in 1..Len(oc.items)}
    IN  IF \/ data.t # "dict"
           \/ ~PyInt(Get(data, "input_channel", IntV(1))).ok
           \/ oc.t # "dict"
           \/ \E n \in names : ~PyInt(Get(oc, n, NullV)).ok
           \/ names = {}
           \/ patterns_raw.t # "dict"
           \/ \E n \in names :
                  TheOne({pattern_raises(pconf) :
                            pconf \in {raw_pattern(n, patterns_raw)}})
        THEN Raised_load
        ELSE [ok |-> TRUE,
              in_ch |-> PyInt(Get(data, "input_channel", IntV(1))).i - 1,
              out_map |-> [n \in names |-> PyInt(Get(oc, n, NullV)).i - 1],
              cfgs |-> [n \in names |-> load_pattern(n, patterns_raw)],
              order |-> order]

\* load_config() where CONFIG_PATH.read_text() returns raw (line 140): the
\* text is filtered (lines 142-151), json.loads parses it (line 152; it
\* raises JSONDecodeError on what is no JSON), and lines 153-276 run on the
\* result
load_config(raw) ==
    TheOne({IF data.ok THEN load_data(data.v) ELSE Raised_load :
              data \in {read_config(raw)}})

-----------------------------------------------------------------------------
(* Output messages and the runtime of one pattern                          *)

note_on_msg(name, ch, note, vel) ==
    [type |-> "note_on", note |-> note, velocity |-> vel, channel |-> ch,
     port |-> name]

note_off_msg(name, ch, note) ==
    [type |-> "note_off", note |-> note, velocity |-> 0, channel |-> ch,
     port |-> name]

\* the runtime dict main() creates for each pattern
NewRuntime ==
    [tick |-> 0, step |-> 0, rand |-> <<>>, rand_vel |-> <<>>,
     note_on |-> None, gate_left |-> 0, tie_prev |-> FALSE,
     pending_off |-> None, pending_left |-> 0]

\* (mutant) the advance without the wrap
NextStep_NoWrap(step, plen) == step + 1

\* rt["step"] = (rt["step"] + 1) % plen
NextStep(step, plen) == (step + 1) % plen

Advance(rt, plen) == [rt EXCEPT !.step = NextStep(rt.step, plen)]

\* (mutant) caches that are never reset at the start of a cycle
ResetCaches_Never(rt, cfg, step_pos) == rt

\* "reset caches if step 0": rand / rand_vel become [None] * len(...)
ResetCaches(rt, cfg, step_pos) ==
    IF step_pos = 0
    THEN [rt EXCEPT !.rand = Repeat(None, Len(cfg.steps)),
                    !.rand_vel = Repeat(None, Len(cfg.velocity))]
    ELSE rt

\* lst[k % len(lst)] if lst else dflt
AtMod(lst, k, dflt) == IF lst = <<>> THEN dflt ELSE lst[(k % Len(lst)) + 1]

\* (mutant) the v-random spread applied whole on each side of the base
VelDraws_WholeSpan(base_vel, vrand_val) ==
    IF vrand_val >= 100 THEN RandInt(1, 127)
    ELSE IF vrand_val > 0
         THEN LET span == (vrand_val * 127) \div 100
              IN  RandInt(Max(1, base_vel - span), Min(127, base_vel + span))
         ELSE {base_vel}

\* the final velocities `vel` can take for a base velocity and a v-random
VelDraws(base_vel, vrand_val) ==
    IF vrand_val >= 100 THEN RandInt(1, 127)
    ELSE IF vrand_val > 0
         THEN LET span == (vrand_val * 127) \div 100
                  half == span \div 2
              IN  RandInt(Max(1, base_vel - half), Min(127, base_vel + half))
         ELSE {base_vel}

\* an outcome of handling one pattern: its runtime, the messages sent, and
\* whether an exception was raised (err)
Outcome(rt, out, err) == [rt |-> rt, out |-> out, err |-> err]

Raised(rt) == Outcome(rt, <<>>, TRUE)

-----------------------------------------------------------------------------
(* Gate / tie logic of a clock-driven fire (lines 596-639)                 *)

\* rt["gate_left"] = cfg["pulses"] * gate_percent / 100.0, in hundredths
GatePulses(cfg, gate_percent) == (cfg.pulses * gate_percent * OnePulse) \div GateScale

TieStep(rt, name, ch, note, vel) ==
    LET on == note_on_msg(name, ch, note, vel)
        r1 == IF rt.note_on = None
              THEN Outcome([rt EXCEPT !.note_on = note], <<on>>, FALSE)
              ELSE IF rt.note_on # note
                   THEN Outcome([rt EXCEPT !.pending_off = rt.note_on,
                                           !.pending_left = OnePulse,
                                           !.note_on = note], <<on>>, FALSE)
                   ELSE Outcome(rt, <<>>, FALSE)
    IN  Outcome([r1.rt EXCEPT !.gate_left = Sustain, !.tie_prev = TRUE],
                r1.out, FALSE)

\* a regular (non-tied) step: lines 614-639
GateStep(rt, cfg, name, ch, note, vel, gate_val) ==
    LET on == note_on_msg(name, ch, note, vel)
        r1 == IF rt.note_on = None
              THEN Outcome([rt EXCEPT !.note_on = note], <<on>>, FALSE)
              ELSE IF rt.note_on = note
                   THEN Outcome(rt, <<>>, FALSE)
                   ELSE IF rt.tie_prev
                        THEN Outcome([rt EXCEPT !.pending_off = rt.note_on,
                                                !.pending_left = OnePulse,
                                                !.note_on = note], <<on>>, FALSE)
                        ELSE Outcome([rt EXCEPT !.note_on = note],
                                     <<note_off_msg(name, ch, rt.note_on), on>>,
                                     FALSE)
        gate_percent == IF IsStr(gate_val) THEN 100 ELSE gate_val.i
    IN  Outcome([r1.rt EXCEPT !.gate_left = GatePulses(cfg, gate_percent),
                              !.tie_prev = FALSE],
                r1.out, FALSE)

GateTie(rt, cfg, name, ch, note, vel, gate_val) ==
    IF IsStr(gate_val) /\ Upper(gate_val.s) = "T"
    THEN TieStep(rt, name, ch, note, vel)
    ELSE GateStep(rt, cfg, name, ch, note, vel, gate_val)

-----------------------------------------------------------------------------
(* A clock-driven step fire (lines 523-642), as the set of its outcomes    *)
(* over the random draws                                                   *)

\* velocity, note range check, gate/tie and the advance (lines 562-642)
FireVel(rt, cfg, name, ch, step_pos, note) ==
    LET vel_val   == AtMod(cfg.velocity, step_pos, IntV(100))
        vrand_val == AtMod(cfg.vrandom, step_pos, 0)
        gate_val  == AtMod(cfg.gate, step_pos, IntV(100))
        isR       == IsStr(vel_val) /\ Upper(vel_val.s) = "R"
        padded    == IF isR THEN PadTo(rt.rand_vel, Len(cfg.velocity), None)
                     ELSE rt.rand_vel
        caches    == IF isR /\ step_pos + 1 <= Len(padded)
                        /\ padded[step_pos + 1] = None
                     THEN {[padded EXCEPT ![step_pos + 1] = d] : d \in RandInt(1, 127)}
                     ELSE {padded}
        Finish(rv, vel) ==
            LET rt1 == [rt EXCEPT !.rand_vel = rv]
            IN  IF ~(0 <= note /\ note <= 127)
                THEN Outcome(rt1, <<>>, FALSE)
                ELSE LET g == GateTie(rt1, cfg, name, ch, note, vel, gate_val)
                     IN  Outcome(Advance(g.rt, cfg.length), g.out, FALSE)
    IN  IF isR /\ step_pos + 1 > Len(padded)
        THEN {Raised([rt EXCEPT !.rand_vel = padded])}
        ELSE UNION {
               {Finish(rv, vel) :
                  vel \in VelDraws(IF isR THEN rv[step_pos + 1] ELSE vel_val.i,
                                   vrand_val)} :
               rv \in caches}

\* index salvage and note number (lines 559-561)
FireNote(rt, cfg, name, ch, chord, step_pos, idx0) ==
    LET ln   == Len(chord)
        idxs == IF idx0 = None \/ ~(1 <= idx0 /\ idx0 <= ln)
                THEN RandInt(1, ln) ELSE {idx0}
        soct == AtMod(cfg.soct, step_pos, 0)
    IN  IF cfg.soct = <<>>       \* step_pos % len(socts): ZeroDivisionError
        THEN {Raised(rt)}
        ELSE UNION {FireVel(rt, cfg, name, ch, step_pos,
                            chord[idx] + (cfg.octave + soct) * 12) : idx \in idxs}

\* step lookup and note index resolution (lines 542-557)
FireResolve(rt, cfg, name, ch, chord, step_pos) ==
    IF step_pos + 1 > Len(cfg.steps)
    THEN {Raised(rt)}
    ELSE LET step_val == cfg.steps[step_pos + 1]
         IN  IF ~IsStr(step_val)
             THEN IF PyInt(step_val).ok      \* int(None) raises TypeError
                  THEN FireNote(rt, cfg, name, ch, chord, step_pos, step_val.i)
                  ELSE {Raised(rt)}
             ELSE IF Upper(step_val.s) = "X"
                  THEN {Outcome(Advance(rt, cfg.length), <<>>, FALSE)}
                  ELSE LET isR    == Upper(step_val.s) = "R"
                           padded == IF isR THEN PadTo(rt.rand, Len(cfg.steps), None)
                                     ELSE rt.rand
                           caches == IF isR /\ padded[step_pos + 1] = None
                                     THEN {[padded EXCEPT ![step_pos + 1] = d] :
                                             d \in RandInt(1, Len(chord))}
                                     ELSE {padded}
                       IN  IF step_pos + 1 > Len(padded)
                           THEN {Raised(rt)}
                           ELSE UNION {FireNote([rt EXCEPT !.rand = r], cfg, name, ch,
                                                chord, step_pos, r[step_pos + 1]) :
                                       r \in caches}

\* cache reset and probability check (lines 531-540), then the rest
FireStep(rt, cfg, name, ch, chord) ==
    LET step_pos == rt.step % cfg.length
        rt1      == ResetCaches(rt, cfg, step_pos)
    IN  IF cfg.sprob = <<>>
        THEN {Raised(rt1)}
        ELSE \* `if random.randint(1,100) > sprobs[...]`: the step is skipped
             \* on the draws above the probability and resolved on the others
             LET prob  == cfg.sprob[(step_pos % Len(cfg.sprob)) + 1]
                 draws == RandInt(1, 100)
             IN  (IF \E u \in draws : u > prob
                  THEN {Outcome(Advance(rt1, cfg.length), <<>>, FALSE)}
                  ELSE {})
                 \cup
                 (IF \E u \in draws : ~(u > prob)
                  THEN FireResolve(rt1, cfg, name, ch, chord, step_pos)
                  ELSE {})

\* (mutant) a pattern that fires one pulse late
ClockPattern_Late(rt, cfg, name, ch, chord) ==
    LET tick1 == rt.tick + 1
    IN  IF tick1 <= cfg.pulses
        THEN {Outcome([rt EXCEPT !.tick = tick1], <<>>, FALSE)}
        ELSE FireStep([rt EXCEPT !.tick = tick1 - cfg.pulses], cfg, name, ch, chord)

\* one pattern on one clock pulse: the pulse accumulator (lines 516-521)
ClockPattern(rt, cfg, name, ch, chord) ==
    LET tick1 == rt.tick + 1
    IN  IF tick1 < cfg.pulses
        THEN {Outcome([rt EXCEPT !.tick = tick1], <<>>, FALSE)}
        ELSE FireStep([rt EXCEPT !.tick = tick1 - cfg.pulses], cfg, name, ch, chord)

\* (mutant) a gate countdown that also counts a note in sustain
ClockTail_CountsSustain(rt, name, ch) ==
    LET g == IF rt.note_on # None /\ rt.gate_left # 0
             THEN IF rt.gate_left - OnePulse <= 0
                  THEN Outcome([rt EXCEPT !.note_on = None, !.gate_left = 0],
                               <<note_off_msg(name, ch, rt.note_on)>>, FALSE)
                  ELSE Outcome([rt EXCEPT !.gate_left = rt.gate_left - OnePulse],
                               <<>>, FALSE)
             ELSE Outcome(rt, <<>>, FALSE)
        r == g.rt
    IN  IF r.pending_off # None
        THEN IF r.pending_left - OnePulse <= 0
             THEN Outcome([r EXCEPT !.pending_left = r.pending_left - OnePulse,
                                    !.pending_off = None],
                          g.out \o <<note_off_msg(name, ch, r.pending_off)>>, FALSE)
             ELSE Outcome([r EXCEPT !.pending_left = r.pending_left - OnePulse],
                          g.out, FALSE)
        ELSE g

\* gate countdown and pending note-off of one pattern (lines 645-660)
\* (mutant) a pending release sent only once its countdown is below zero
ClockTail_PendingLate(rt, name, ch) ==
    LET g == IF rt.note_on # None /\ rt.gate_left > 0
             THEN IF rt.gate_left - OnePulse <= 0
                  THEN Outcome([rt EXCEPT !.note_on = None, !.gate_left = 0],
                               <<note_off_msg(name, ch, rt.note_on)>>, FALSE)
                  ELSE Outcome([rt EXCEPT !.gate_left = rt.gate_left - OnePulse],
                               <<>>, FALSE)
             ELSE Outcome(rt, <<>>, FALSE)
        r == g.rt
    IN  IF r.pending_off # None
        THEN IF r.pending_left - OnePulse < 0
             THEN Outcome([r EXCEPT !.pending_left = r.pending_left - OnePulse,
                                    !.pending_off = None],
                          g.out \o <<note_off_msg(name, ch, r.pending_off)>>, FALSE)
             ELSE Outcome([r EXCEPT !.pending_left = r.pending_left - OnePulse],
                          g.out, FALSE)
        ELSE g

ClockTail(rt, name, ch) ==
    LET g == IF rt.note_on # None /\ rt.gate_left > 0
             THEN IF rt.gate_left - OnePulse <= 0
                  THEN Outcome([rt EXCEPT !.note_on = None, !.gate_left = 0],
                               <<note_off_msg(name, ch, rt.note_on)>>, FALSE)
                  ELSE Outcome([rt EXCEPT !.gate_left = rt.gate_left - OnePulse],
                               <<>>, FALSE)
             ELSE Outcome(rt, <<>>, FALSE)
        r == g.rt
    IN  IF r.pending_off # None
        THEN IF r.pending_left - OnePulse <= 0
             THEN Outcome([r EXCEPT !.pending_left = r.pending_left - OnePulse,
                                    !.pending_off = None],
                          g.out \o <<note_off_msg(name, ch, r.pending_off)>>, FALSE)
             ELSE Outcome([r EXCEPT !.pending_left = r.pending_left - OnePulse],
                          g.out, FALSE)
        ELSE g

-----------------------------------------------------------------------------
(* play_pattern_step (lines 363-447): the immediate fire on START and on   *)
(* chord enter, as the set of its outcomes; `last` is last_played[name]    *)

PlayOutcome(rt, out, err, last) == [rt |-> rt, out |-> out, err |-> err, last |-> last]

play_pattern_step(rt, cfg, name, ch, chord, last) ==
    LET plen     == cfg.length
        steps    == cfg.steps
        Quiet(r) == PlayOutcome(r, <<>>, FALSE, last)
        Crash(r) == PlayOutcome(r, <<>>, TRUE, last)
    IN  IF plen = 0 \/ steps = <<>> \/ chord = <<>>
        THEN {Quiet(rt)}
        ELSE
        LET step_pos == rt.step % plen
            rt1      == ResetCaches(rt, cfg, step_pos)
            ln       == Len(chord)
            Send(r, idx) ==
                IF idx = None \/ ~(1 <= idx /\ idx <= ln)
                THEN {Quiet(r)}
                ELSE
                LET vel_val   == AtMod(cfg.velocity, step_pos, IntV(100))
                    vrand_val == AtMod(cfg.vrandom, step_pos, 0)
                    gate_val  == AtMod(cfg.gate, step_pos, IntV(100))
                    bases     == IF IsStr(vel_val) /\ Upper(vel_val.s) = "R"
                                 THEN RandInt(1, 127) ELSE {vel_val.i}
                    note_num  == chord[idx] + cfg.octave * 12
                    gated     == IF IsStr(gate_val) /\ Upper(gate_val.s) = "T"
                                 THEN [r EXCEPT !.note_on = note_num,
                                                !.gate_left = Sustain,
                                                !.tie_prev = TRUE]
                                 ELSE [r EXCEPT !.note_on = note_num,
                                                !.gate_left = GatePulses(cfg, gate_val.i),
                                                !.tie_prev = FALSE]
                IN  IF ~(0 <= note_num /\ note_num <= 127)
                    THEN {Quiet(r)}
                    ELSE UNION {
                           {PlayOutcome(Advance(gated, plen),
                                        <<note_on_msg(name, ch, note_num, vel)>>,
                                        FALSE, note_num) :
                              vel \in VelDraws(base_vel, vrand_val)} :
                           base_vel \in bases}
        IN  IF step_pos + 1 > Len(steps)
            THEN {Crash(rt1)}
            ELSE
            LET step_val == steps[step_pos + 1]
            IN  IF ~IsStr(step_val) \/ Upper(step_val.s) \notin {"X", "R"}
                THEN IF PyInt(step_val).ok
                     THEN Send(rt1, PyInt(step_val).i)
                     ELSE {Crash(rt1)}   \* int() raises
                ELSE IF Upper(step_val.s) = "X"
                     THEN {Quiet(rt1)}
                     ELSE LET padded == PadTo(rt1.rand, Len(steps), None)
                              caches == IF padded[step_pos + 1] = None
                                        THEN {[padded EXCEPT ![step_pos + 1] = d] :
                                                d \in RandInt(1, ln)}
                                        ELSE {padded}
                          IN  UNION {Send([rt1 EXCEPT !.rand = r], r[step_pos + 1]) :
                                     r \in caches}

-----------------------------------------------------------------------------
(* Chord buffer                                                            *)

InChord(chord, note) == \E k \in 1..Len(chord) : chord[k] = note

\* (mutant) add_note without the cap
add_note_NoCap(chord, note) ==
    IF InChord(chord, note) THEN chord
    ELSE SortSeq(Append(chord, note), LAMBDA a, b : a < b)

\* (mutant) add_note that keeps the highest notes
add_note_KeepHighest(chord, note) ==
    IF InChord(chord, note) THEN chord
    ELSE LET sorted == SortSeq(Append(chord, note), LAMBDA a, b : a < b)
         IN  SubSeq(sorted, Max(1, Len(sorted) - MAX_NOTES + 1), Len(sorted))

add_note(chord, note) ==
    IF InChord(chord, note) THEN chord
    ELSE Slice(SortSeq(Append(chord, note), LAMBDA a, b : a < b), MAX_NOTES)

remove_note(chord, note) ==
    IF ~InChord(chord, note) THEN chord
    ELSE LET k == CHOOSE j \in 1..Len(chord) :
                     chord[j] = note /\ \A h \in 1..(j - 1) : chord[h] # note
         IN  SubSeq(chord, 1, k - 1) \o SubSeq(chord, k + 1, Len(chord))

-----------------------------------------------------------------------------
(* The handlers of the event loop, as sets of results                      *)
(* [chord, last, ps, out, err]                                             *)

\* the keys of dict d, whose keys were inserted in `order`
Keys(order, d) == SelectSeq(order, LAMBDA n : n \in DOMAIN d)

Result(chord, last, ps, out, err) ==
    [chord |-> chord, last |-> last, ps |-> ps, out |-> out, err |-> err]

\* note_off for every last_played that is not None, in dict order
RECURSIVE LastOffs(_, _, _)
LastOffs(names, last, omap) ==
    IF names = <<>> THEN <<>>
    ELSE LET n == Head(names)
         IN  (IF last[n] # None THEN <<note_off_msg(n, omap[n], last[n])>> ELSE <<>>)
             \o LastOffs(Tail(names), last, omap)

\* (mutant) last_played kept after its note-offs
ClearedLast_Keep(last) == last

ClearedLast(last) == [n \in DOMAIN last |-> None]

\* (mutant) the reset that forgets the pulse accumulator
ResetCounters_KeepTick(ps) ==
    [n \in DOMAIN ps |-> [ps[n] EXCEPT !.step = 0, !.rand = <<>>, !.rand_vel = <<>>]]

\* tick, step and the caches of every pattern reset (lines 666-670, 708-712,
\* 717-721); the note fields are left as they are
ResetCounters(ps) ==
    [n \in DOMAIN ps |-> [ps[n] EXCEPT !.tick = 0, !.step = 0,
                                       !.rand = <<>>, !.rand_vel = <<>>]]

\* (mutant) a pattern loop that stops at the first pattern that is not due
RECURSIVE ClockFires_Break(_, _, _, _, _)
ClockFires_Break(names, cfgs, omap, chord, acc) ==
    IF names = <<>> \/ acc.err THEN {acc}
    ELSE LET n == Head(names)
         IN  IF acc.ps[n].tick + 1 < cfgs[n].pulses
             THEN {[acc EXCEPT !.ps[n].tick = @ + 1]}
             ELSE UNION {ClockFires_Break(Tail(names), cfgs, omap, chord,
                                          [acc EXCEPT !.ps[n] = o.rt,
                                                      !.out = acc.out \o o.out,
                                                      !.err = o.err]) :
                         o \in ClockPattern(acc.ps[n], cfgs[n], n, omap[n], chord)}

\* the per-pattern fires of one clock pulse, in pattern order; an exception
\* ends the loop
RECURSIVE ClockFires(_, _, _, _, _)
ClockFires(names, cfgs, omap, chord, acc) ==
    IF names = <<>> \/ acc.err THEN {acc}
    ELSE LET n == Head(names)
         IN  UNION {ClockFires(Tail(names), cfgs, omap, chord,
                               [acc EXCEPT !.ps[n] = o.rt,
                                           !.out = acc.out \o o.out,
                                           !.err = o.err]) :
                    o \in ClockPattern(acc.ps[n], cfgs[n], n, omap[n], chord)}

RECURSIVE ClockTails(_, _, _)
ClockTails(names, omap, acc) ==
    IF names = <<>> THEN acc
    ELSE LET n == Head(names)
             o == ClockTail(acc.ps[n], n, omap[n])
         IN  ClockTails(Tail(names), omap,
                        [acc EXCEPT !.ps[n] = o.rt, !.out = acc.out \o o.out])

\* play_pattern_step for every pattern, in pattern order
RECURSIVE PlayAll(_, _, _, _)
PlayAll(names, cfgs, omap, acc) ==
    IF names = <<>> \/ acc.err THEN {acc}
    ELSE LET n == Head(names)
         IN  UNION {PlayAll(Tail(names), cfgs, omap,
                            [acc EXCEPT !.ps[n] = o.rt,
                                        !.last[n] = o.last,
                                        !.out = acc.out \o o.out,
                                        !.err = o.err]) :
                    o \in play_pattern_step(acc.ps[n], cfgs[n], n, omap[n],
                                            acc.chord, acc.last[n])}

\* (mutant) the fire and the tail of each pattern in turn, pattern after pattern
RECURSIVE ClockInTurn(_, _, _, _, _)
ClockInTurn(names, cfgs, omap, chord, acc) ==
    IF names = <<>> \/ acc.err THEN {acc}
    ELSE LET n == Head(names)
         IN  UNION {LET t == IF o.err THEN o ELSE ClockTail(o.rt, n, omap[n])
                    IN  ClockInTurn(Tail(names), cfgs, omap, chord,
                                    [acc EXCEPT !.ps[n] = t.rt,
                                                !.out = acc.out \o o.out \o t.out,
                                                !.err = o.err]) :
                    o \in ClockPattern(acc.ps[n], cfgs[n], n, omap[n], chord)}

\* (mutant) a clock pulse whose gate countdown runs inside the pattern loop
HandleClock_TailInLoop(chord, last, ps, cfgs, omap, ord) ==
    IF chord = <<>>
    THEN {Result(chord, ClearedLast(last), ps, LastOffs(Keys(ord.ports, last), last, omap), FALSE)}
    ELSE ClockInTurn(Keys(ord.patterns, cfgs), cfgs, omap, chord,
                     Result(chord, last, ps, <<>>, FALSE))

\* a clock pulse (lines 501-662): with no chord the last_played notes are
\* released; else the pattern loop, then the gate countdown loop
HandleClock(chord, last, ps, cfgs, omap, ord) ==
    IF chord = <<>>
    THEN {Result(chord, ClearedLast(last), ps, LastOffs(Keys(ord.ports, last), last, omap), FALSE)}
    ELSE {IF r.err THEN r ELSE ClockTails(Keys(ord.patterns, r.ps), omap, r) :
            r \in ClockFires(Keys(ord.patterns, cfgs), cfgs, omap, chord,
                             Result(chord, last, ps, <<>>, FALSE))}

HandleStart(chord, last, ps, cfgs, omap, ord) ==
    LET r == Result(chord, last, ResetCounters(ps), <<>>, FALSE)
    IN  IF chord # <<>> THEN PlayAll(Keys(ord.patterns, cfgs), cfgs, omap, r) ELSE {r}

HandleStop(chord, last, ps, cfgs, omap, ord) ==
    {Result(chord, ClearedLast(last), ps, LastOffs(Keys(ord.ports, last), last, omap), FALSE)}

\* (mutant) note handling that restarts the patterns on every chord change
HandleNote_Restart(m, chord, last, ps, cfgs, omap, ord) ==
    LET prev_len == Len(chord)
        chord1   == IF m.type = "note_on" /\ m.velocity > 0
                    THEN add_note(chord, m.note)
                    ELSE remove_note(chord, m.note)
        new_len  == Len(chord1)
    IN  IF new_len = 0 /\ prev_len > 0
        THEN {Result(chord1, ClearedLast(last), ResetCounters(ps),
                     LastOffs(Keys(ord.ports, last), last, omap), FALSE)}
        ELSE IF chord1 # chord /\ new_len > 0
             THEN PlayAll(Keys(ord.patterns, cfgs), cfgs, omap,
                          Result(chord1, last, ResetCounters(ps), <<>>, FALSE))
             ELSE {Result(chord1, last, ps, <<>>, FALSE)}

\* a note-on or note-off on the input channel (lines 690-727)
HandleNote(m, chord, last, ps, cfgs, omap, ord) ==
    LET prev_len == Len(chord)
        chord1   == IF m.type = "note_on" /\ m.velocity > 0
                    THEN add_note(chord, m.note)
                    ELSE remove_note(chord, m.note)
        new_len  == Len(chord1)
    IN  IF new_len = 0 /\ prev_len > 0
        THEN {Result(chord1, ClearedLast(last), ResetCounters(ps),
                     LastOffs(Keys(ord.ports, last), last, omap), FALSE)}
        ELSE IF prev_len = 0 /\ new_len > 0
             THEN PlayAll(Keys(ord.patterns, cfgs), cfgs, omap,
                          Result(chord1, last, ResetCounters(ps), <<>>, FALSE))
             ELSE {Result(chord1, last, ps, <<>>, FALSE)}

-----------------------------------------------------------------------------
(* The handlers statement by statement. A handler is a list of writes, a   *)
(* run is the sequence of the states [chord, last, ps, out, err] after     *)
(* each of them: a signal can arrive between any two writes.               *)

\* one write: a message sent (f = "send"), an exception raised ("raise"),
\* chord_notes changed ("chord"), last_played[n] assigned ("last"), or
\* pattern_state[n][f] assigned (f a key of the runtime dict)
Op(f, n, v) == [f |-> f, n |-> n, v |-> v]

ApplyOp(s, o) ==
    CASE o.f = "send"  -> [s EXCEPT !.out = Append(@, o.v)]
      [] o.f = "raise" -> [s EXCEPT !.err = TRUE]
      [] o.f = "chord" -> [s EXCEPT !.chord = o.v]
      [] o.f = "last"  -> [s EXCEPT !.last[o.n] = o.v]
      [] OTHER         -> [s EXCEPT !.ps[o.n][o.f] = o.v]

\* the run of the writes `ops` from state s
RECURSIVE Trace(_, _)
Trace(s, ops) ==
    IF ops = <<>> THEN <<s>>
    ELSE <<s>> \o Trace(ApplyOp(s, Head(ops)), Tail(ops))

\* `for name, last in last_played.items(): if last is not None:` the
\* note-off, then `last_played[name] = None` (lines 504-508, 680-684, 704-708)
RECURSIVE OffOps(_, _, _)
OffOps(names, last, omap) ==
    IF names = <<>> THEN <<>>
    ELSE LET n == Head(names)
         IN  (IF last[n] # None
              THEN <<Op("send", n, note_off_msg(n, omap[n], last[n])),
                     Op("last", n, None)>>
              ELSE <<>>)
             \o OffOps(Tail(names), last, omap)

\* `for rt in pattern_state.values():` the four resets (lines 666-670,
\* 709-713, 718-722)
RECURSIVE ResetOps(_)
ResetOps(names) ==
    IF names = <<>> THEN <<>>
    ELSE LET n == Head(names)
         IN  <<Op("tick", n, 0), Op("step", n, 0), Op("rand", n, <<>>),
               Op("rand_vel", n, <<>>)>>
             \o ResetOps(Tail(names))

\* add_note: append, sort, del chord[MAX_NOTES:]; remove_note: remove
ChordOps(m, chord) ==
    IF m.type = "note_on" /\ m.velocity > 0
    THEN IF InChord(chord, m.note) THEN <<>>
         ELSE LET sorted == SortSeq(Append(chord, m.note), LAMBDA a, b : a < b)
              IN  <<Op("chord", "", Append(chord, m.note)), Op("chord", "", sorted)>>
                  \o (IF Len(sorted) > MAX_NOTES
                      THEN <<Op("chord", "", Slice(sorted, MAX_NOTES))>>
                      ELSE <<>>)
    ELSE IF InChord(chord, m.note)
         THEN <<Op("chord", "", remove_note(chord, m.note))>>
         ELSE <<>>

\* the gate / tie logic of a fire (lines 596-639)
GateOps(rt, cfg, n, ch, note, vel, gate_val) ==
    LET on    == Op("send", n, note_on_msg(n, ch, note, vel))
        start == <<on, Op("note_on", n, note)>>
        glide == <<Op("pending_off", n, rt.note_on),
                   Op("pending_left", n, OnePulse)>> \o start
    IN  IF IsStr(gate_val) /\ Upper(gate_val.s) = "T"
        THEN (IF rt.note_on = None THEN start
              ELSE IF rt.note_on # note THEN glide
              ELSE <<>>)
             \o <<Op("gate_left", n, Sustain), Op("tie_prev", n, TRUE)>>
        ELSE (IF rt.note_on = None THEN start
              ELSE IF rt.note_on = note THEN <<>>
              ELSE IF rt.tie_prev THEN glide
              ELSE <<Op("send", n, note_off_msg(n, ch, rt.note_on))>> \o start)
             \o <<Op("gate_left", n,
                     GatePulses(cfg, IF IsStr(gate_val) THEN 100 ELSE gate_val.i)),
                  Op("tie_prev", n, FALSE)>>

\* the random draws of one clock-driven fire: whether the probability check
\* skips the step, the random index d, the salvaged index sal, the random
\* base velocity bv and the final velocity vel
FireDraws(rt, cfg, ln) ==
    IF rt.tick + 1 < cfg.pulses
    THEN {[skip |-> FALSE, d |-> 1, sal |-> 1, bv |-> 0, vel |-> 0]}
    ELSE
    LET step_pos  == rt.step % cfg.length
        prob      == AtMod(cfg.sprob, step_pos, 100)
        skips     == IF cfg.sprob = <<>> THEN {FALSE}
                     ELSE {b \in BOOLEAN : \E u \in RandInt(1, 100) : b = (u > prob)}
        rv0       == ResetCaches(rt, cfg, step_pos).rand_vel
        vel_val   == AtMod(cfg.velocity, step_pos, IntV(100))
        vrand_val == AtMod(cfg.vrandom, step_pos, 0)
        isR       == IsStr(vel_val) /\ Upper(vel_val.s) = "R"
        known     == isR /\ step_pos + 1 <= Len(rv0) /\ rv0[step_pos + 1] # None
        bvs       == IF isR /\ ~known THEN RandInt(1, 127) ELSE {0}
        base(bv)  == IF ~isR THEN vel_val.i
                     ELSE IF known THEN rv0[step_pos + 1] ELSE bv
    IN  UNION {{[skip |-> sk, d |-> d, sal |-> sal, bv |-> bv, vel |-> vel] :
                  sk \in skips, d \in RandInt(1, ln), sal \in RandInt(1, ln),
                  vel \in VelDraws(base(bv), vrand_val)} :
               bv \in bvs}

\* one pattern on one clock pulse (lines 515-642) under the draws w
FireOps(s, n, cfg, ch, w) ==
    LET rt    == s.ps[n]
        chord == s.chord
        tick1 == rt.tick + 1
    IN  <<Op("tick", n, tick1)>> \o
        (IF tick1 < cfg.pulses THEN <<>>
         ELSE
         <<Op("tick", n, tick1 - cfg.pulses)>> \o
         LET plen     == cfg.length
             steps    == cfg.steps
             step_pos == rt.step % plen
             pos      == step_pos + 1
             rt0      == ResetCaches(rt, cfg, step_pos)
             reset    == IF step_pos = 0
                         THEN <<Op("rand", n, rt0.rand), Op("rand_vel", n, rt0.rand_vel)>>
                         ELSE <<>>
             advance  == <<Op("step", n, NextStep(rt.step, plen))>>
             raise    == <<Op("raise", n, 0)>>
             Sound(idx0) ==
                 LET idx == IF idx0 = None \/ ~(1 <= idx0 /\ idx0 <= Len(chord))
                            THEN w.sal ELSE idx0
                 IN  IF cfg.soct = <<>> THEN raise
                     ELSE
                     LET note      == chord[idx]
                                      + (cfg.octave + AtMod(cfg.soct, step_pos, 0)) * 12
                         vel_val   == AtMod(cfg.velocity, step_pos, IntV(100))
                         gate_val  == AtMod(cfg.gate, step_pos, IntV(100))
                         isR       == IsStr(vel_val) /\ Upper(vel_val.s) = "R"
                         padded    == IF isR
                                      THEN PadTo(rt0.rand_vel, Len(cfg.velocity), None)
                                      ELSE rt0.rand_vel
                         pad       == IF isR /\ Len(rt0.rand_vel) < Len(cfg.velocity)
                                      THEN <<Op("rand_vel", n, padded)>> ELSE <<>>
                     IN  pad \o
                         (IF isR /\ pos > Len(padded) THEN raise
                          ELSE
                          (IF isR /\ padded[pos] = None
                           THEN <<Op("rand_vel", n, [padded EXCEPT ![pos] = w.bv])>>
                           ELSE <<>>)
                          \o
                          (IF ~(0 <= note /\ note <= 127) THEN <<>>
                           ELSE GateOps(rt, cfg, n, ch, note, w.vel, gate_val)
                                \o advance))
         IN  reset \o
             (IF cfg.sprob = <<>> THEN raise
              ELSE IF w.skip THEN advance
              ELSE IF pos > Len(steps) THEN raise
              ELSE
              LET step_val == steps[pos]
              IN  IF ~IsStr(step_val)
                  THEN IF PyInt(step_val).ok THEN Sound(step_val.i) ELSE raise
                  ELSE IF Upper(step_val.s) = "X" THEN advance
                  ELSE
                  LET isR    == Upper(step_val.s) = "R"
                      padded == IF isR THEN PadTo(rt0.rand, Len(steps), None)
                                ELSE rt0.rand
                      draw   == isR /\ padded[pos] = None
                      rand   == IF draw THEN [padded EXCEPT ![pos] = w.d] ELSE padded
                  IN  (IF isR /\ Len(rt0.rand) < Len(steps)
                       THEN <<Op("rand", n, padded)>> ELSE <<>>)
                      \o (IF draw THEN <<Op("rand", n, rand)>> ELSE <<>>)
                      \o (IF pos > Len(rand) THEN raise ELSE Sound(rand[pos]))))

\* the runs of one pattern on one clock pulse, one for each draw
FireRuns(s, n, cfg, ch) ==
    {Trace(s, FireOps(s, n, cfg, ch, w)) :
       w \in FireDraws(s.ps[n], cfg, Len(s.chord))}

\* gate countdown and pending note-off of one pattern (lines 646-660)
TailOps(rt, n, ch) ==
    (IF rt.note_on # None /\ rt.gate_left > 0
     THEN <<Op("gate_left", n, rt.gate_left - OnePulse)>>
          \o (IF rt.gate_left - OnePulse <= 0
              THEN <<Op("send", n, note_off_msg(n, ch, rt.note_on)),
                     Op("note_on", n, None), Op("gate_left", n, 0)>>
              ELSE <<>>)
     ELSE <<>>)
    \o
    (IF rt.pending_off # None
     THEN <<Op("pending_left", n, rt.pending_left - OnePulse)>>
          \o (IF rt.pending_left - OnePulse <= 0
              THEN <<Op("send", n, note_off_msg(n, ch, rt.pending_off)),
                     Op("pending_off", n, None)>>
              ELSE <<>>)
     ELSE <<>>)

\* `for pname, rt in pattern_state.items():` the countdowns (line 645)
RECURSIVE TailsOps(_, _, _)
TailsOps(names, ps, omap) ==
    IF names = <<>> THEN <<>>
    ELSE TailOps(ps[Head(names)], Head(names), omap[Head(names)])
         \o TailsOps(Tail(names), ps, omap)

\* the random draws of play_pattern_step: the random index d and the final
\* velocity vel
PlayDraws(rt, cfg, ln) ==
    LET step_pos  == rt.step % cfg.length
        vel_val   == AtMod(cfg.velocity, step_pos, IntV(100))
        vrand_val == AtMod(cfg.vrandom, step_pos, 0)
        bases     == IF IsStr(vel_val) /\ Upper(vel_val.s) = "R"
                     THEN RandInt(1, 127) ELSE {vel_val.i}
        vels      == UNION {VelDraws(b, vrand_val) : b \in bases}
    IN  {[d |-> d, vel |-> vel] : d \in RandInt(1, ln), vel \in vels}

\* play_pattern_step(n) (lines 363-447) under the draws w
PlayOps(s, n, cfg, ch, w) ==
    LET rt    == s.ps[n]
        chord == s.chord
        plen  == cfg.length
        steps == cfg.steps
    IN  IF plen = 0 \/ steps = <<>> \/ chord = <<>> THEN <<>>
        ELSE
        LET step_pos == rt.step % plen
            pos      == step_pos + 1
            rt0      == ResetCaches(rt, cfg, step_pos)
            reset    == IF step_pos = 0
                        THEN <<Op("rand", n, rt0.rand), Op("rand_vel", n, rt0.rand_vel)>>
                        ELSE <<>>
            raise    == <<Op("raise", n, 0)>>
            Sound(idx) ==
                IF idx = None \/ ~(1 <= idx /\ idx <= Len(chord)) THEN <<>>
                ELSE
                LET note_num == chord[idx] + cfg.octave * 12
                    gate_val == AtMod(cfg.gate, step_pos, IntV(100))
                    tie      == IsStr(gate_val) /\ Upper(gate_val.s) = "T"
                IN  IF ~(0 <= note_num /\ note_num <= 127) THEN <<>>
                    ELSE <<Op("send", n, note_on_msg(n, ch, note_num, w.vel)),
                           Op("note_on", n, note_num),
                           Op("gate_left", n,
                              IF tie THEN Sustain ELSE GatePulses(cfg, gate_val.i)),
                           Op("tie_prev", n, tie),
                           Op("last", n, note_num),
                           Op("step", n, NextStep(rt.step, plen))>>
        IN  reset \o
            (IF pos > Len(steps) THEN raise
             ELSE
             LET step_val == steps[pos]
             IN  IF ~IsStr(step_val) \/ Upper(step_val.s) \notin {"X", "R"}
                 THEN IF PyInt(step_val).ok THEN Sound(PyInt(step_val).i) ELSE raise
                 ELSE IF Upper(step_val.s) = "X" THEN <<>>
                 ELSE
                 LET padded == PadTo(rt0.rand, Len(steps), None)
                     draw   == padded[pos] = None
                     rand   == IF draw THEN [padded EXCEPT ![pos] = w.d] ELSE padded
                 IN  (IF Len(rt0.rand) < Len(steps)
                      THEN <<Op("rand", n, padded)>> ELSE <<>>)
                     \o (IF draw THEN <<Op("rand", n, rand)>> ELSE <<>>)
                     \o Sound(rand[pos]))

\* the runs of play_pattern_step(n), one for each draw
PlayRuns(s, n, cfg, ch) ==
    IF s.chord = <<>> THEN {<<s>>}
    ELSE {Trace(s, PlayOps(s, n, cfg, ch, w)) :
            w \in PlayDraws(s.ps[n], cfg, Len(s.chord))}

\* the runs of a loop over the patterns, continuing the run t: the fires of
\* a clock pulse (fire) or the calls of play_pattern_step; an exception ends
\* the loop
RECURSIVE PatternRuns(_, _, _, _, _)
PatternRuns(fire, names, cfgs, omap, t) ==
    LET s == t[Len(t)]
    IN  IF names = <<>> \/ s.err THEN {t}
        ELSE LET n    == Head(names)
                 runs == IF fire THEN FireRuns(s, n, cfgs[n], omap[n])
                         ELSE PlayRuns(s, n, cfgs[n], omap[n])
             IN  UNION {PatternRuns(fire, Tail(names), cfgs, omap, t \o Tail(r)) :
                        r \in runs}

-----------------------------------------------------------------------------
(* The environment: the texts of config.json and the input messages        *)

\* a pattern entry of a config.json written by hand: four of the keys
\* load_config reads (lines 174-262; the others take their defaults, and
\* "gate" may be shorter than "length") and "enabled", which it does not
\* read. The editor writes other entries: eleven keys, every list `length`
\* long, and a division out of its fifteen.
Pat(length, steps, gate, division) ==
    DictV(<<<<"length", IntV(length)>>, <<"steps", ListV(steps)>>,
            <<"gate", ListV(gate)>>, <<"division", StrV(division)>>,
            <<"enabled", BoolV(TRUE)>>>>)

\* the dict d with d[key] = v
With(d, key, v) == DictV(Put(d.items, key, v))

\* a text of config.json as CONFIG_PATH.read_text() returns it (line 140):
\* the three keys load_config reads (lines 153-159), for the input channel
\* 1, the <<name, channel>> pairs outs and the <<name, pattern>> pairs
\* pats, laid out as json.dumps(indent=2) lays a dict out. It is no file
\* of the editor, which adds "random_settings" and writes one pattern for
\* each output.
Document(outs, pats) ==
    dumps(DictV(<<<<"input_channel", IntV(1)>>, <<"output_channels", DictV(outs)>>,
                  <<"patterns", DictV(pats)>>>>), 0)

\* Pattern 1: a tied step, then a gated one; Pattern 2: one gated step
DocA ==
    Document(<<<<"Pattern 1", IntV(1)>>, <<"Pattern 2", IntV(2)>>>>,
             <<<<"Pattern 1", Pat(2, <<IntV(1), IntV(2)>>, <<StrV("T"), IntV(50)>>,
                                  Division("1/32", ""))>>,
               <<"Pattern 2", Pat(1, <<IntV(1)>>, <<>>, Division("1/32", "t"))>>>>)

\* the same channels, other step data and lengths; Pattern 2 starts on a rest
DocB ==
    Document(<<<<"Pattern 1", IntV(1)>>, <<"Pattern 2", IntV(2)>>>>,
             <<<<"Pattern 1", Pat(3, <<IntV(2), IntV(1), IntV(1)>>, <<>>,
                                  Division("1/32", "t"))>>,
               <<"Pattern 2", Pat(2, <<StrV("X"), IntV(1)>>, <<>>,
                                  Division("1/32", "t"))>>>>)

\* one output only, on another channel (the ports are recreated), written
\* by hand: comments on lines of their own and after the data, and a "//"
\* inside a string, which line 149 keeps
DocC ==
    "// performance preset\n"
    \o "{\n"
    \o "  \"input_channel\": 1,  // the keyboard\n"
    \o "  \"output_channels\": {\"Pattern 1\": 3},\n"
    \o "  \"homepage\": \"https://example.org/arp\",\n"
    \o "  \"patterns\": {\n"
    \o "    \"Pattern 1\": {\n"
    \o "      \"length\": 2,\n"
    \o "      \"steps\": [1, 2],\n"
    \o "      // a tie, then half a step\n"
    \o "      \"gate\": [\"T\", 50],  // \"T\" ties\n"
    \o "      \"division\": \"1/32\",\n"
    \o "      \"enabled\": true\n"
    \o "    }\n"
    \o "  }\n"
    \o "}\n"

\* no output_channels: load_config raises ValueError
DocBad ==
    Document(<<>>,
             <<<<"Pattern 1", Pat(2, <<IntV(1), IntV(2)>>, <<StrV("T"), IntV(50)>>,
                                  Division("1/32", ""))>>,
               <<"Pattern 2", Pat(1, <<IntV(1)>>, <<>>, Division("1/32", "t"))>>>>)

Docs == {DocA, DocB, DocC, DocBad}

\* one pattern whose two steps have probability 0
DocProb ==
    Document(<<<<"Pattern 1", IntV(1)>>>>,
             <<<<"Pattern 1",
                 With(Pat(2, <<IntV(1), IntV(2)>>, <<IntV(50), IntV(50)>>,
                          Division("1/32", "")),
                      "s-prob", ListV(<<IntV(0), IntV(0)>>))>>>>)

\* Pattern 2 with "enabled": false
DocOff ==
    Document(<<<<"Pattern 1", IntV(1)>>, <<"Pattern 2", IntV(2)>>>>,
             <<<<"Pattern 1", Pat(1, <<IntV(1)>>, <<IntV(50)>>, Division("1/32", ""))>>,
               <<"Pattern 2",
                 With(Pat(2, <<IntV(1), IntV(2)>>, <<>>, Division("1/32", "t")),
                      "enabled", BoolV(FALSE))>>>>)

\* every division string: the six bases and an unknown one, with each suffix
Bases == {"1", "1/2", "1/4", "1/8", "1/16", "1/32", "1/3"}

Suffixes == {"", "d", "t", "q"}

Divisions == {Division(b, x) : b \in Bases, x \in Suffixes}

\* a document with one pattern, on output channel 1
DocOne(pat) == Document(<<<<"Pattern 1", IntV(1)>>>>, <<<<"Pattern 1", pat>>>>)

\* one two-step pattern at half gate on the division d
DocDiv(d) == DocOne(Pat(2, <<IntV(1), IntV(1)>>, <<IntV(50), IntV(50)>>, d))

\* the documents of the specification of the per-pattern switches
CfgDocs == {DocProb, DocOff}

InitDoc == DocA

InNotes == {60, 64}

Msg(type, note, velocity, channel) ==
    [type |-> type, note |-> note, velocity |-> velocity, channel |-> channel]

NoMsg == Msg("none", 0, 0, 0)

Msgs ==
    {Msg("clock", 0, 0, 0), Msg("start", 0, 0, 0), Msg("stop", 0, 0, 0)}
    \cup {Msg("note_on", n, 100, in_channel) : n \in InNotes}
    \cup {Msg("note_off", n, 0, in_channel) : n \in InNotes}

\* the keys of the keyboard played in the specification of the chord buffer:
\* one more than the chord can hold
MaxKeys == 9

ChordKeys == 60..(60 + MaxKeys - 1)

\* every key pressed and released, and a note-on of velocity 0
ChordMsgs ==
    {Msg("note_on", n, 100, in_channel) : n \in ChordKeys}
    \cup {Msg("note_off", n, 0, in_channel) : n \in ChordKeys}
    \cup {Msg("note_on", 60, 0, in_channel)}

\* one key pressed and released, and the clock
DivMsgs ==
    {Msg("clock", 0, 0, 0), Msg("note_on", 60, 100, in_channel),
     Msg("note_off", 60, 0, in_channel)}

\* a tied step, then a step at half gate, on 1/16 (6 pulses per step)
DocTie ==
    DocOne(Pat(2, <<IntV(1), IntV(2)>>, <<StrV("T"), IntV(50)>>, Division("1/16", "")))

\* a step at full gate, then a tied one
DocLegato ==
    DocOne(Pat(2, <<IntV(1), IntV(2)>>, <<IntV(100), StrV("T")>>, Division("1/32", "")))

\* two steps at half gate on 1/16
DocGate ==
    DocOne(Pat(2, <<IntV(1), IntV(2)>>, <<IntV(50), IntV(50)>>, Division("1/16", "")))

\* two steps at full gate
DocFull ==
    DocOne(Pat(2, <<IntV(1), IntV(2)>>, <<IntV(100), IntV(100)>>, Division("1/32", "")))

\* the documents of the specification of the gate / tie logic
GateDocs == {DocTie, DocLegato, DocGate, DocFull}

\* a two-step pattern at half gate on 1/32 (3 pulses per step)
PatStep(steps) == Pat(2, steps, <<IntV(50), IntV(50)>>, Division("1/32", ""))

\* a rest, then a note
DocRest == DocOne(PatStep(<<StrV("X"), IntV(1)>>))

\* octave +5 and a first step two octaves up: its note is above 127
DocHigh ==
    DocOne(With(With(PatStep(<<IntV(1), IntV(2)>>), "oktawa", IntV(5)),
                "s-oct", ListV(<<IntV(2), IntV(0)>>)))

\* a first step on the second chord note
DocOver == DocOne(PatStep(<<IntV(2), IntV(1)>>))

\* a first step one octave up, a second one octave down
DocOct ==
    DocOne(With(PatStep(<<IntV(1), IntV(2)>>), "s-oct", ListV(<<IntV(1), IntV(-1)>>)))

\* five steps with their own velocity and v-random
DocVel ==
    DocOne(With(With(Pat(5, <<IntV(1), IntV(1), IntV(1), IntV(1), IntV(1)>>,
                         <<IntV(50), IntV(50), IntV(50), IntV(50), IntV(50)>>,
                         Division("1/32", "")),
                     "velocity",
                     ListV(<<IntV(100), IntV(120), StrV("R"), IntV(5), IntV(64)>>)),
                "v-random",
                ListV(<<IntV(0), IntV(20), IntV(0), IntV(50), IntV(100)>>)))

\* the documents of the specification of the step fire
StepDocs == {DocRest, DocHigh, DocOver, DocOct, DocVel}

\* two patterns on the same division, each a tied step then a gated one; the
\* second pattern's gate ends within the pulse of its fire
DocPair ==
    Document(<<<<"Pattern 1", IntV(1)>>, <<"Pattern 2", IntV(2)>>>>,
             <<<<"Pattern 1", Pat(2, <<IntV(1), IntV(2)>>, <<StrV("T"), IntV(50)>>,
                                  Division("1/32", ""))>>,
               <<"Pattern 2", Pat(2, <<IntV(1), IntV(2)>>, <<StrV("T"), IntV(30)>>,
                                  Division("1/32", ""))>>>>)

\* the same patterns with "Pattern 2" written first in "output_channels"
DocPairRev ==
    Document(<<<<"Pattern 2", IntV(2)>>, <<"Pattern 1", IntV(1)>>>>,
             <<<<"Pattern 1", Pat(2, <<IntV(1), IntV(2)>>, <<StrV("T"), IntV(50)>>,
                                  Division("1/32", ""))>>,
               <<"Pattern 2", Pat(2, <<IntV(1), IntV(2)>>, <<StrV("T"), IntV(30)>>,
                                  Division("1/32", ""))>>>>)

\* the messages of the specification of the input filter: those of Msgs, the
\* transport messages and the notes on another channel, a note-on of
\* velocity 0 for each key, and two messages of other types
FilterMsgs ==
    Msgs
    \cup {Msg(t, 0, 0, in_channel + 1) : t \in {"clock", "start", "stop"}}
    \cup {Msg("note_on", n, 100, in_channel + 1) : n \in InNotes}
    \cup {Msg("note_off", n, 0, in_channel + 1) : n \in InNotes}
    \cup {Msg("note_on", n, 0, in_channel) : n \in InNotes}
    \cup {Msg("control_change", 1, 64, in_channel), Msg("songpos", 0, 0, 0)}

\* two random steps
DocRand == DocOne(PatStep(<<StrV("R"), StrV("R")>>))

\* a single random step
DocRandOne ==
    DocOne(Pat(1, <<StrV("R")>>, <<IntV(50)>>, Division("1/32", "")))

\* two random steps, the second above the MIDI range: it is evaluated again
\* on every step boundary
DocRandHigh ==
    DocOne(With(With(PatStep(<<StrV("R"), StrV("R")>>), "oktawa", IntV(5)),
                "s-oct", ListV(<<IntV(0), IntV(1)>>)))

\* the documents of the specification of the random caches
RandDocs == {DocRand, DocRandOne, DocRandHigh}

\* documents whose "length" differs from the number of entries of "steps":
\* three steps declared and two given, one step declared and two given
DocShort ==
    DocOne(Pat(3, <<IntV(1), IntV(2)>>, <<IntV(50), IntV(50)>>,
               Division("1/32", "")))

DocLong ==
    DocOne(Pat(1, <<IntV(1), IntV(2)>>, <<IntV(50), IntV(50)>>,
               Division("1/32", "")))

LenDocs == {DocShort, DocLong}

\* the texts config.json holds in the specifications
Texts ==
    Docs \cup CfgDocs \cup GateDocs \cup StepDocs \cup RandDocs \cup LenDocs
    \cup {DocPair, DocPairRev} \cup {DocDiv(d) : d \in Divisions}

\* `data` of line 152 for each of them
Data == [raw \in Texts |-> read_config(raw).v]

\* what load_config() returns for each of them: main() and the reload call
\* it anew each time, on a text that gives the same each time
Loaded == [raw \in Texts |-> load_config(raw)]

-----------------------------------------------------------------------------
(* Observation of the outputs                                              *)

\* what is on at each output after the messages `out`, as the receiver of
\* the port of that name hears it: a note-on switches its note on on its
\* channel, a note-off switches it off on its channel and on no other
RECURSIVE Account(_, _)
Account(snd, out) ==
    IF out = <<>> THEN snd
    ELSE LET m == Head(out)
         IN  Account([snd EXCEPT ![m.port] =
                         IF m.type = "note_on" THEN @ \cup {<<m.channel, m.note>>}
                         ELSE @ \ {<<m.channel, m.note>>}],
                     Tail(out))

\* the notes of a set of <<channel, note>>
Notes(on) == {e[2] : e \in on}

\* the longest run of clock pulses the meter counts
MaxClocks == 1024

MeterOff == [on |-> FALSE, clocks |-> 0, fires |-> <<>>]

MeterZero(names) == [on |-> TRUE, clocks |-> 0, fires |-> [n \in names |-> 0]]

\* the meter past MaxClocks pulses on one chord: it counts no further until
\* the chord is left
MeterPaused(names) ==
    [on |-> FALSE, clocks |-> MaxClocks, fires |-> [n \in names |-> 0]]

\* a pattern fired on a clock pulse when its accumulator did not just grow by
\* one: `rt["tick"] -= cfg["pulses"]` ran (lines 516-521)
Fired(rt, rt1) == rt1.tick # rt.tick + 1

\* the meter after message m took the chord from `chord` to `chord1` and the
\* runtime from ps to ps1: zero while no chord is held and at chord enter, a
\* count of the pulses and of each pattern's fires while one is held, up to
\* MaxClocks pulses
Metered(mt, m, chord, chord1, ps, ps1) ==
    IF ~mt.on /\ mt.clocks = 0 THEN mt
    ELSE IF chord = <<>> \/ chord1 = <<>> THEN MeterZero(DOMAIN ps1)
    ELSE IF m.type = "clock"
         THEN IF mt.on /\ mt.clocks < MaxClocks
              THEN [mt EXCEPT !.clocks = @ + 1,
                              !.fires = [n \in DOMAIN ps1 |->
                                           mt.fires[n] + (IF Fired(ps[n], ps1[n])
                                                          THEN 1 ELSE 0)]]
              ELSE MeterPaused(DOMAIN ps1)
         ELSE mt

-----------------------------------------------------------------------------
(* The event loop                                                          *)

\* the names of the outputs the documents of `docs` declare
PortNames(docs) ==
    UNION {DOMAIN Loaded[d].out_map : d \in docs}

\* the state after the setup of main() with `doc` in config.json, with
\* `calls` calls of main() still to come; there is none when load_config
\* raises (line 319)
InitMain(doc, mt, calls) ==
    LET c == Loaded[doc]
    IN  /\ c.ok
        /\ in_channel = c.in_ch
        /\ chord_notes = <<>>
        /\ out_map = c.out_map
        /\ key_order = [ports |-> c.order, patterns |-> c.order]
        /\ pattern_cfgs = c.cfgs
        /\ last_played = [n \in DOMAIN c.out_map |-> None]
        /\ pattern_state = [n \in DOMAIN c.cfgs |-> NewRuntime]
        /\ reload_requested = FALSE
        /\ pc = "recv"
        /\ msg = NoMsg
        /\ log = ""
        /\ emitted = <<>>
        /\ sounding = [n \in PortNames({doc} \cup Docs) |-> {}]
        /\ config = doc
        /\ meter = mt
        /\ calls_left = calls
        /\ lock_file = TRUE

\* the router run as a script: main() will be called once more
InitWith(doc, mt) == InitMain(doc, mt, 1)

Init == InitWith(InitDoc, MeterOff)

\* (mutant) note handling without the channel test
Handlers_AnyChannel(m) ==
    IF m.type = "clock"
    THEN HandleClock(chord_notes, last_played, pattern_state, pattern_cfgs, out_map,
                    key_order)
    ELSE IF m.type = "start"
    THEN HandleStart(chord_notes, last_played, pattern_state, pattern_cfgs, out_map,
                    key_order)
    ELSE IF m.type = "stop"
    THEN HandleStop(chord_notes, last_played, pattern_state, pattern_cfgs, out_map,
                    key_order)
    ELSE IF m.type \in {"note_on", "note_off"}
    THEN HandleNote(m, chord_notes, last_played, pattern_state, pattern_cfgs, out_map,
                    key_order)
    ELSE {Result(chord_notes, last_played, pattern_state, <<>>, FALSE)}

\* the handler of one message
Handlers(m) ==
    IF m.type = "clock"
    THEN HandleClock(chord_notes, last_played, pattern_state, pattern_cfgs, out_map,
                    key_order)
    ELSE IF m.type = "start"
    THEN HandleStart(chord_notes, last_played, pattern_state, pattern_cfgs, out_map,
                    key_order)
    ELSE IF m.type = "stop"
    THEN HandleStop(chord_notes, last_played, pattern_state, pattern_cfgs, out_map,
                    key_order)
    ELSE IF m.type \in {"note_on", "note_off"} /\ m.channel = in_channel
    THEN HandleNote(m, chord_notes, last_played, pattern_state, pattern_cfgs, out_map,
                    key_order)
    ELSE {Result(chord_notes, last_played, pattern_state, <<>>, FALSE)}

\* the runs of the handler of message m (lines 501-729) from the current
\* state; the last state of a run is a member of Handlers(m)
HandlerRuns(m) ==
    LET s0    == Result(chord_notes, last_played, pattern_state, <<>>, FALSE)
        pats  == Keys(key_order.patterns, pattern_cfgs)
        rts   == Keys(key_order.patterns, pattern_state)
        offs  == OffOps(Keys(key_order.ports, last_played), last_played, out_map)
        Tails(t) ==
            LET s == t[Len(t)]
            IN  IF s.err THEN t
                ELSE t \o Tail(Trace(s, TailsOps(rts, s.ps, out_map)))
    IN  IF m.type = "clock"
        THEN IF chord_notes = <<>> THEN {Trace(s0, offs)}
             ELSE {Tails(t) :
                     t \in PatternRuns(TRUE, pats, pattern_cfgs, out_map, <<s0>>)}
        ELSE IF m.type = "start"
        THEN IF chord_notes # <<>>
             THEN PatternRuns(FALSE, pats, pattern_cfgs, out_map,
                              Trace(s0, ResetOps(rts)))
             ELSE {Trace(s0, ResetOps(rts))}
        ELSE IF m.type = "stop"
        THEN {Trace(s0, offs)}
        ELSE IF m.type \in {"note_on", "note_off"} /\ m.channel = in_channel
        THEN LET ops      == ChordOps(m, chord_notes)
                 prev_len == Len(chord_notes)
                 new_len  == Len(Trace(s0, ops)[Len(ops) + 1].chord)
             IN  IF new_len = 0 /\ prev_len > 0
                 THEN {Trace(s0, ops \o offs \o ResetOps(rts))}
                 ELSE IF prev_len = 0 /\ new_len > 0
                      THEN PatternRuns(FALSE, pats, pattern_cfgs, out_map,
                                       Trace(s0, ops \o ResetOps(rts)))
                      ELSE {Trace(s0, ops)}
        ELSE {<<s0>>}

\* `finally` (lines 733-741) on last_played, on `outputs` (name -> channel) and
\* on the set `shut` of its ports that are closed: the note-offs sent, and
\* whether an exception ended it (KeyError on a name `outputs` lacks,
\* ValueError of a send on a closed port)
RECURSIVE FinallyRun(_, _, _, _)
FinallyRun(names, last, outs, shut) ==
    IF names = <<>> THEN [out |-> <<>>, err |-> FALSE]
    ELSE LET n == Head(names)
         IN  IF last[n] = None THEN FinallyRun(Tail(names), last, outs, shut)
             ELSE IF n \notin DOMAIN outs \/ n \in shut
                  THEN [out |-> <<>>, err |-> TRUE]
                  ELSE LET r == FinallyRun(Tail(names), last, outs, shut)
                       IN  [out |-> <<note_off_msg(n, outs[n], last[n])>> \o r.out,
                            err |-> r.err]

\* the ways the process leaves the loop, with main() still to be called
\* `calls` times. A SIGTERM ends the process at once: nothing is sent, the
\* lock file stays. A SIGINT (KeyboardInterrupt) runs `except` and `finally`
\* (lines 731-741), which end, or raise and leave main(), or are cut short
\* by a second signal: before cleanup_lock(), or after it and any number of
\* the note-offs. An "error" (any other exception, raised by a handler) runs
\* `finally` alike and then leaves main()
Exits(sig, names, last, outs, shut, calls) ==
    LET f == FinallyRun(names, last, outs, shut)
    IN  IF sig = "SIGTERM"
        THEN {[out |-> <<>>, pc |-> "killed", calls |-> 0, lock |-> TRUE]}
        ELSE {[out |-> f.out, pc |-> "closed",
               calls |-> IF f.err \/ sig = "error" THEN 0 ELSE calls,
               lock |-> FALSE]}
             \cup {[out |-> <<>>, pc |-> "closed", calls |-> 0, lock |-> TRUE]}
             \cup {[out |-> SubSeq(f.out, 1, k), pc |-> "closed", calls |-> 0,
                    lock |-> FALSE] : k \in 0..Len(f.out)}

\* the block of `if reload_requested:` (lines 462-499) statement by
\* statement, c being what load_config makes of the document on disk: the
\* states [out_map, last, cfgs, ps, ord, log, outs, shut] after each statement
ReloadRun(c) ==
    LET s0   == [out_map |-> out_map, last |-> last_played, cfgs |-> pattern_cfgs,
                 ps |-> pattern_state, ord |-> key_order, log |-> log,
                 outs |-> out_map, shut |-> {}]
        old  == Keys(key_order.ports, out_map)
        shuts == [k \in 1..Len(old) |->
                    [s0 EXCEPT !.shut = {old[j] : j \in 1..k}]]
        s1   == [s0 EXCEPT !.outs = c.out_map]
        s2   == [s1 EXCEPT !.out_map = <<>>]
        s3   == [s2 EXCEPT !.out_map = c.out_map]
        s4   == [s3 EXCEPT !.last = <<>>]
        s5   == [s4 EXCEPT !.last = [n \in DOMAIN c.out_map |-> None],
                           !.ord.ports = c.order]
        remap == c.out_map # out_map
        s6   == [(IF remap THEN s5 ELSE s0) EXCEPT !.cfgs = c.cfgs,
                                                   !.ord.patterns = c.order]
        s7   == [s6 EXCEPT !.ps = <<>>]
        fills == [k \in 1..Len(c.order) |->
                    [s7 EXCEPT !.ps = [n \in {c.order[j] : j \in 1..k} |-> NewRuntime]]]
        s8   == [fills[Len(c.order)] EXCEPT !.log = "reloaded"]
    IN  IF ~c.ok THEN <<s0, [s0 EXCEPT !.log = "failed"]>>
        ELSE <<s0>>
             \o (IF remap THEN shuts \o <<s1, s2, s3, s4, s5>> ELSE <<>>)
             \o <<s6, s7>> \o fills \o <<s8>>

\* where a handler that ran to its end leaves the loop: waiting for the
\* next message
Stays(calls, lock) == {[out |-> <<>>, pc |-> "recv", calls |-> calls, lock |-> lock]}

\* the effect of handling m on the runtime state; an exception leaves the
\* loop through `finally` and main() with it
Handle(m) ==
    \E r \in Handlers(m) :
        \E e \in (IF r.err
                  THEN Exits("error", Keys(key_order.ports, r.last), r.last,
                             out_map, {}, calls_left)
                  ELSE Stays(calls_left, lock_file)) :
            /\ chord_notes' = r.chord
            /\ last_played' = r.last
            /\ pattern_state' = r.ps
            /\ emitted' = r.out \o e.out
            /\ sounding' = Account(sounding, r.out \o e.out)
            /\ meter' = Metered(meter, m, chord_notes, r.chord, pattern_state, r.ps)
            /\ pc' = e.pc
            /\ calls_left' = e.calls
            /\ lock_file' = e.lock
            /\ in_channel' = in_channel

\* `for msg in in_port:` with no reload requested: the message is handled
Receive(m) ==
    /\ pc = "recv"
    /\ ~reload_requested
    /\ msg' = m
    /\ log' = ""
    /\ Handle(m)
    /\ UNCHANGED <<pattern_cfgs, out_map, key_order, reload_requested, config>>

\* `for msg in in_port:` with a reload requested: the flag is cleared and
\* load_config is about to run (lines 460-461)
ReceiveReload(m) ==
    /\ pc = "recv"
    /\ reload_requested
    /\ reload_requested' = FALSE
    /\ msg' = m
    /\ log' = ""
    /\ emitted' = <<>>
    /\ pc' = "reload"
    /\ UNCHANGED <<chord_notes, last_played, pattern_state, pattern_cfgs,
                   out_map, key_order, sounding, config, meter, calls_left,
                   lock_file, in_channel>>

\* last_played after a reload: reset only when the mapping changed
ReloadedLast(c, last, omap) ==
    IF c.ok /\ c.out_map # omap THEN [n \in DOMAIN c.out_map |-> None] ELSE last

\* (mutant) the runtime recreated before load_config is known to succeed
ReloadedState_Always(c, ps) == [n \in DOMAIN ps |-> NewRuntime]

\* (mutant) the runtime kept across a reload
ReloadedState_Keep(c, ps) == ps

\* pattern_state after a reload: recreated when load_config succeeded
ReloadedState(c, ps) ==
    IF c.ok THEN [n \in DOMAIN c.cfgs |-> NewRuntime] ELSE ps

ReloadedCfgs(c, cfgs) == IF c.ok THEN c.cfgs ELSE cfgs

ReloadedOutMap(c, omap) == IF c.ok THEN c.out_map ELSE omap

\* the key orders after a reload: out_map and last_played are refilled only
\* when the mapping changed (dict comparison, blind to the order), the
\* patterns on every successful load
ReloadedOrder(c, omap, ord) ==
    IF ~c.ok THEN ord
    ELSE [ports    |-> IF c.out_map # omap THEN c.order ELSE ord.ports,
          patterns |-> c.order]

\* (mutant) the flag cleared once the configuration has been read
ApplyReload_ClearsAfter(doc) ==
    /\ pc = "reload"
    /\ \E c \in {Loaded[doc]} :
           /\ out_map' = ReloadedOutMap(c, out_map)
           /\ key_order' = ReloadedOrder(c, out_map, key_order)
           /\ last_played' = ReloadedLast(c, last_played, out_map)
           /\ pattern_cfgs' = ReloadedCfgs(c, pattern_cfgs)
           /\ pattern_state' = ReloadedState(c, pattern_state)
           /\ log' = IF c.ok THEN "reloaded" ELSE "failed"
           /\ config' = IF c.ok THEN doc ELSE config
    /\ pc' = "dispatch"
    /\ reload_requested' = FALSE
    /\ UNCHANGED <<chord_notes, msg, emitted, sounding, meter, calls_left,
                   lock_file, in_channel>>

\* the body of `if reload_requested:` (lines 462-499) on the document found
\* on disk
ApplyReload(doc) ==
    /\ pc = "reload"
    /\ \E c \in {Loaded[doc]} :
           /\ out_map' = ReloadedOutMap(c, out_map)
           /\ key_order' = ReloadedOrder(c, out_map, key_order)
           /\ last_played' = ReloadedLast(c, last_played, out_map)
           /\ pattern_cfgs' = ReloadedCfgs(c, pattern_cfgs)
           /\ pattern_state' = ReloadedState(c, pattern_state)
           /\ log' = IF c.ok THEN "reloaded" ELSE "failed"
           /\ config' = IF c.ok THEN doc ELSE config
    /\ pc' = "dispatch"
    /\ UNCHANGED <<chord_notes, reload_requested, msg, emitted, sounding, meter,
                   calls_left, lock_file, in_channel>>

\* the message received before the reload is handled after it
Dispatch ==
    /\ pc = "dispatch"
    /\ Handle(msg)
    /\ UNCHANGED <<pattern_cfgs, out_map, key_order, reload_requested, msg, log,
                   config>>

\* _handle_reload: the signal handler sets the flag. The flag is read only at
\* the top of the loop, so a signal during a handler acts as one after it; a
\* signal between the clearing of the flag and load_config is the case apart
SignalReload ==
    /\ pc \in {"recv", "reload"}
    /\ ~reload_requested
    /\ reload_requested' = TRUE
    /\ UNCHANGED <<chord_notes, last_played, pattern_state, pattern_cfgs,
                   out_map, key_order, pc, msg, log, emitted, sounding,
                   config, meter, calls_left, lock_file, in_channel>>

\* KeyboardInterrupt while the loop waits for a message (line 458), the
\* reload flag set or not: `except` and `finally` run, to their end (main()
\* returns) or until a second signal cuts them short. The interrupts that
\* land inside a handler or inside the reload block are Interrupt and
\* InterruptReload
Shutdown ==
    /\ pc = "recv"
    /\ \E e \in Exits("SIGINT", Keys(key_order.ports, last_played), last_played,
                       out_map, {}, calls_left) :
          /\ emitted' = e.out
          /\ sounding' = Account(sounding, e.out)
          /\ pc' = e.pc
          /\ calls_left' = e.calls
          /\ lock_file' = e.lock
    /\ msg' = NoMsg
    /\ UNCHANGED <<chord_notes, last_played, pattern_state, pattern_cfgs,
                   out_map, key_order, reload_requested, log, config, meter,
                   in_channel>>

\* one call of main() with its reloads, up to the Ctrl-C that ends it; the
\* signals that can end it at any statement and the second call of main()
\* are the subject of SpecExit
Next ==
    \/ \E m \in Msgs : Receive(m)
    \/ \E m \in Msgs : ReceiveReload(m)
    \/ \E doc \in Docs : ApplyReload(doc)
    \/ Dispatch
    \/ SignalReload
    \/ Shutdown

Spec == Init /\ [][Next]_vars

\* a signal inside the handler of message m (lines 501-729), between two of
\* its writes: SIGINT raises KeyboardInterrupt there, SIGTERM ends the process
Interrupt(sig, m) ==
    /\ \/ pc = "recv" /\ ~reload_requested /\ msg' = m /\ log' = ""
       \/ pc = "dispatch" /\ m = msg /\ UNCHANGED <<msg, log>>
    /\ \E t \in HandlerRuns(m) : \E k \in 1..Len(t) :
          /\ ~t[k].err
          /\ \E e \in Exits(sig, Keys(key_order.ports, t[k].last), t[k].last,
                            out_map, {}, calls_left) :
                /\ chord_notes' = t[k].chord
                /\ last_played' = t[k].last
                /\ pattern_state' = t[k].ps
                /\ emitted' = t[k].out \o e.out
                /\ sounding' = Account(sounding, t[k].out \o e.out)
                /\ pc' = e.pc
                /\ calls_left' = e.calls
                /\ lock_file' = e.lock
    /\ UNCHANGED <<pattern_cfgs, out_map, key_order, reload_requested, config,
                   meter, in_channel>>

\* a signal inside the block of `if reload_requested:` (lines 462-499),
\* between two of its statements
InterruptReload(sig, doc) ==
    /\ pc = "reload"
    /\ \E run \in {ReloadRun(Loaded[doc])} : \E k \in 1..Len(run) :
          \E r \in {run[k]} :
              \E e \in Exits(sig, Keys(r.ord.ports, r.last), r.last, r.outs,
                             r.shut, calls_left) :
                /\ out_map' = r.out_map
                /\ key_order' = r.ord
                /\ last_played' = r.last
                /\ pattern_cfgs' = r.cfgs
                /\ pattern_state' = r.ps
                /\ log' = r.log
                /\ config' = IF r.cfgs # pattern_cfgs THEN doc ELSE config
                /\ emitted' = e.out
                /\ sounding' = Account(sounding, e.out)
                /\ pc' = e.pc
                /\ calls_left' = e.calls
                /\ lock_file' = e.lock
    /\ UNCHANGED <<chord_notes, reload_requested, msg, meter, in_channel>>

\* SIGTERM while the loop waits for a message, or between the two calls of
\* main(): sent by ensure_single_instance() of another router (line 56), by
\* Process.terminate() of main_app.py, by the editor (config_editor.py line
\* 1115). No `finally` runs: the notes stay on and the lock file stays
Terminate ==
    /\ pc = "recv" \/ (pc = "closed" /\ calls_left > 0)
    /\ pc' = "killed"
    /\ calls_left' = 0
    /\ emitted' = <<>>
    /\ UNCHANGED <<chord_notes, last_played, pattern_state, pattern_cfgs,
                   out_map, key_order, reload_requested, msg, log, sounding,
                   config, meter, lock_file, in_channel>>

\* the second call of main() (line 746), after the first one returned: the
\* document on disk is loaded, the ports are opened and a new loop starts
\* with new local state; what sounds at the outputs still sounds.
\* ensure_single_instance() writes the lock file first; a failing load_config
\* ends the process
Restart(doc) ==
    /\ pc = "closed"
    /\ calls_left > 0
    /\ calls_left' = calls_left - 1
    /\ lock_file' = TRUE
    /\ emitted' = <<>>
    /\ \E c \in {Loaded[doc]} :
          IF c.ok
          THEN /\ chord_notes' = <<>>
               /\ out_map' = c.out_map
               /\ key_order' = [ports |-> c.order, patterns |-> c.order]
               /\ pattern_cfgs' = c.cfgs
               /\ last_played' = [n \in DOMAIN c.out_map |-> None]
               /\ pattern_state' = [n \in DOMAIN c.cfgs |-> NewRuntime]
               /\ reload_requested' = FALSE
               /\ pc' = "recv"
               /\ msg' = NoMsg
               /\ log' = ""
               /\ config' = doc
               /\ in_channel' = c.in_ch
               /\ UNCHANGED <<sounding, meter>>
          ELSE UNCHANGED <<chord_notes, last_played, pattern_state, pattern_cfgs,
                           out_map, key_order, reload_requested, pc, msg, log,
                           sounding, config, meter, in_channel>>

\* the messages and the documents of the specification of the exits: one
\* key, the transport and the clock; a reload that keeps the ports, one that
\* recreates them and one that fails
ExitMsgs ==
    {Msg("clock", 0, 0, 0), Msg("start", 0, 0, 0), Msg("stop", 0, 0, 0),
     Msg("note_on", 60, 100, in_channel), Msg("note_off", 60, 0, in_channel)}

ExitDocs == {DocA, DocC, DocBad}

Signals == {"SIGINT", "SIGTERM"}

\* the router run as a script (main() is called twice) or as the child
\* process of main_app.py (router_main is called once)
InitExit == \E calls \in {0, 1} : InitMain(InitDoc, MeterOff, calls)

NextExit ==
    \/ \E m \in ExitMsgs : Receive(m)
    \/ \E m \in ExitMsgs : ReceiveReload(m)
    \/ \E doc \in ExitDocs : ApplyReload(doc)
    \/ Dispatch
    \/ SignalReload
    \/ Shutdown
    \/ \E sig \in Signals, m \in ExitMsgs : Interrupt(sig, m)
    \/ \E sig \in Signals, doc \in ExitDocs : InterruptReload(sig, doc)
    \/ Terminate
    \/ \E doc \in ExitDocs : Restart(doc)

\* The engine with every way out of its loop: an interrupt or a SIGTERM at
\* any statement, and the second call of main()
SpecExit == InitExit /\ [][NextExit]_vars

\* the statement-by-statement runs end where the handlers end
RunsEndAsHandlers ==
    pc = "recv" =>
        \A m \in Msgs : {t[Len(t)] : t \in HandlerRuns(m)} = Handlers(m)

\* the statement-by-statement reload ends where ApplyReload ends
ReloadRunEndsAsApplyReload ==
    pc = "reload" =>
        \A doc \in Docs :
            \E c \in {Loaded[doc]} : \E run \in {ReloadRun(c)} :
                \E r \in {run[Len(run)]} :
                    /\ r.out_map = ReloadedOutMap(c, out_map)
                    /\ r.ord = ReloadedOrder(c, out_map, key_order)
                    /\ r.last = ReloadedLast(c, last_played, out_map)
                    /\ r.cfgs = ReloadedCfgs(c, pattern_cfgs)
                    /\ r.ps = ReloadedState(c, pattern_state)
                    /\ r.log = (IF c.ok THEN "reloaded" ELSE "failed")
                    /\ r.outs = r.out_map
                    /\ r.shut = {}

\* The engine started on a document of CfgDocs and run without reloads
InitCfg == \E doc \in CfgDocs : InitWith(doc, MeterOff)

NextCfg == \E m \in Msgs : Receive(m)

SpecCfg == InitCfg /\ [][NextCfg]_vars

\* The engine started on any division, with the meter on: it counts up to
\* MaxClocks pulses after each chord enter
InitDiv ==
    \E d \in Divisions :
        InitWith(DocDiv(d), MeterZero(DOMAIN Loaded[DocDiv(d)].cfgs))

NextDiv == \E m \in DivMsgs : Receive(m)

SpecDiv == InitDiv /\ [][NextDiv]_vars

\* The engine played on ChordKeys only: note-ons and note-offs, no clock
NextChord == \E m \in ChordMsgs : Receive(m)

SpecChord == Init /\ [][NextChord]_vars

\* The engine started on a document of GateDocs and run without reloads
InitGate == \E doc \in GateDocs : InitWith(doc, MeterOff)

NextGate == \E m \in Msgs : Receive(m)

SpecGate == InitGate /\ [][NextGate]_vars

\* The engine started on a document of StepDocs and run without reloads
InitStep == \E doc \in StepDocs : InitWith(doc, MeterOff)

NextStepDocs == \E m \in Msgs : Receive(m)

SpecStep == InitStep /\ [][NextStepDocs]_vars

\* The engine started on DocPair and run without reloads
InitPair == \E doc \in {DocPair, DocPairRev} : InitWith(doc, MeterOff)

NextPair == \E m \in Msgs : Receive(m)

SpecPair == InitPair /\ [][NextPair]_vars

\* The engine started on InitDoc and fed every message of FilterMsgs
NextFilter == \E m \in FilterMsgs : Receive(m)

SpecFilter == Init /\ [][NextFilter]_vars

\* The engine started on a document of RandDocs and run without reloads
InitRand == \E doc \in RandDocs : InitWith(doc, MeterOff)

NextRand == \E m \in Msgs : Receive(m)

SpecRand == InitRand /\ [][NextRand]_vars

\* the router started on a document of LenDocs, never reloaded
InitLen == \E doc \in LenDocs : InitWith(doc, MeterOff)

NextLen == \E m \in Msgs : Receive(m)

SpecLen == InitLen /\ [][NextLen]_vars

\* a clock pulse is taken from the input port and handled
ClockPulse == \E m \in DivMsgs : m.type = "clock" /\ Receive(m)

\* the router started on a document of StepDocs, driven by clock pulses and
\* one key only (no Start, no Stop, no reload)
NextProgress == \E m \in DivMsgs : Receive(m)

\* clock pulses keep arriving: the loop handles every message the port
\* delivers
SpecProgress == InitStep /\ [][NextProgress]_vars /\ WF_vars(ClockPulse)

-----------------------------------------------------------------------------
(* Properties                                                              *)

Patterns == DOMAIN pattern_state

Ports == DOMAIN sounding

\* the event loop is between two events and the last one was of this type
Handled(type) == pc = "recv" /\ msg.type = type

\* the loop of a call of main() is running (lines 456-729)
InLoop == pc \in {"recv", "reload", "dispatch"}

\* a step that ends the loop (lines 731-741, or a SIGTERM), or that begins
\* the second call of main() (line 746)
Leaves == ~InLoop \/ ~InLoop'

Silent(p) == sounding[p] = {}

NoNote(p) == pattern_state[p].note_on = None /\ pattern_state[p].pending_off = None

Counters0(p) ==
    /\ pattern_state[p].tick = 0
    /\ pattern_state[p].step = 0
    /\ pattern_state[p].rand = <<>>
    /\ pattern_state[p].rand_vel = <<>>

\* the messages of `out` sent to port p
OnPort(out, p) == SelectSeq(out, LAMBDA m : m.port = p)

NoteOns(out) == SelectSeq(out, LAMBDA m : m.type = "note_on")

NoteOffs(out) == SelectSeq(out, LAMBDA m : m.type = "note_off")

\* C1: once the chord has become empty, at the latest after the next clock
\* pulse no note is left on at any output and every pattern's sounding note
\* and pending_off are None.
C1_EmptyChordReleasesAll ==
    (Handled("clock") /\ chord_notes = <<>>) =>
        /\ \A p \in Ports : Silent(p)
        /\ \A p \in Patterns : NoNote(p)

\* C2: at shutdown every note that was switched on at an output has been
\* switched off again (note-ons and note-offs balance on every output).
C2_ShutdownBalanced ==
    pc = "closed" => \A p \in Ports : Silent(p)

\* C3: at every event boundary the notes left on at a pattern's output are at
\* most its sounding note and its pending_off note.
C3_AtMostOneSounding ==
    pc = "recv" =>
        \A p \in Patterns :
            Notes(sounding[p]) \subseteq
                ({pattern_state[p].note_on, pattern_state[p].pending_off} \ {None})

\* C4: while the loop runs, every pattern's step cursor is in [0, length) of
\* its current configuration, after every event and every reload.
C4_CursorInRange ==
    InLoop =>
        \A p \in Patterns :
            /\ pattern_state[p].step >= 0
            /\ pattern_state[p].step < pattern_cfgs[p].length

\* C4 witness: a clock pulse has moved the cursor of a 3-step pattern, loaded
\* by a reload, to its last position.
C4_Witness ==
    /\ Handled("clock")
    /\ \E p \in Patterns :
          pattern_cfgs[p].length = 3 /\ pattern_state[p].step = 2

\* C5: when a reload has been applied, no note is left on at any output (the
\* notes on at that moment got their note-off before the runtime was
\* re-initialised).
C5_ReloadReleasesNotes ==
    (pc = "dispatch" /\ log = "reloaded") => \A p \in Ports : Silent(p)

\* C6: a reload whose load_config raises changes nothing: configs, port
\* mapping, pattern runtime, last_played and chord are as before, and the
\* event that was received is then dispatched (unless a signal ends the loop).
C6_FailedReloadKeepsState ==
    [][(pc = "reload" /\ log' = "failed" /\ ~Leaves) =>
          /\ pattern_cfgs' = pattern_cfgs
          /\ out_map' = out_map
          /\ pattern_state' = pattern_state
          /\ last_played' = last_played
          /\ chord_notes' = chord_notes
          /\ sounding' = sounding
          /\ msg' = msg
          /\ pc' = "dispatch"]_vars

\* C6 witness: a failed reload with a chord held and a note playing, the
\* received clock still to be dispatched.
C6_Witness ==
    /\ pc = "dispatch"
    /\ log = "failed"
    /\ msg.type = "clock"
    /\ chord_notes # <<>>
    /\ \E p \in Patterns : pattern_state[p].note_on # None

\* C7: the configuration and the port mapping change only in the reload step,
\* which comes after an event is received with the flag set and before that
\* event is dispatched; the event handlers never reload; and after a
\* successful reload every pattern's runtime is as new. Steps that end the
\* loop or begin the second call of main() are not reloads.
C7_ReloadAtEventBoundary ==
    [][/\ ((pattern_cfgs' # pattern_cfgs \/ out_map' # out_map) /\ ~Leaves) =>
              (pc = "reload" /\ pc' = "dispatch")
       /\ (pc = "recv" /\ reload_requested /\ pc' \notin {"recv", "closed", "killed"}) =>
              /\ pc' = "reload"
              /\ ~reload_requested'
              /\ pattern_state' = pattern_state
              /\ chord_notes' = chord_notes
              /\ emitted' = <<>>
       /\ (pc = "reload" /\ log' = "reloaded" /\ ~Leaves) =>
              /\ DOMAIN pattern_state' = DOMAIN pattern_cfgs'
              /\ \A p \in DOMAIN pattern_state' : pattern_state'[p] = NewRuntime
              /\ msg' = msg
       /\ pc = "dispatch" =>
              (msg' = msg /\ pc' \in {"recv", "closed", "killed"})]_vars

\* C7 witness: a reload has replaced the configuration while a chord was held
\* and a note was on, and the received event is about to be dispatched.
C7_Witness ==
    /\ pc = "dispatch"
    /\ log = "reloaded"
    /\ chord_notes # <<>>
    /\ pattern_cfgs # Loaded[InitDoc].cfgs
    /\ \E p \in Ports : sounding[p] # {}

\* the step in which a note-on takes the chord from empty to non-empty
ChordEnterStep ==
    /\ chord_notes = <<>>
    /\ chord_notes' # <<>>

\* C8: on chord enter every pattern is reset and then fires exactly one step
\* by the fire-step procedure of a clock-driven fire: the pattern's runtime
\* and its output are an outcome of FireStep on the reset runtime.
C8_ChordEnterFiresLikeClock ==
    [][ChordEnterStep =>
          \A p \in Patterns :
              \E o \in FireStep(ResetCounters(pattern_state)[p], pattern_cfgs[p],
                                p, out_map[p], chord_notes') :
                  /\ pattern_state'[p] = o.rt
                  /\ OnPort(emitted', p) = o.out]_vars

\* C9: after Stop no note is left on at any output and every pattern is reset:
\* accumulator 0, cursor 0, caches cleared, no sounding note.
C9_StopReleasesAndResets ==
    Handled("stop") =>
        /\ \A p \in Ports : Silent(p)
        /\ \A p \in Patterns : Counters0(p) /\ NoNote(p)

\* the first step of pattern p plays: its probability is 100, it names a
\* held note by a fixed index, and the note, with the pattern's and the
\* step's octave, is a MIDI note
FirstStepPlays(p) ==
    LET cfg == pattern_cfgs[p]
        sv  == cfg.steps[1]
    IN  /\ cfg.sprob[1] = 100
        /\ ~IsStr(sv)
        /\ 1 <= sv.i /\ sv.i <= Len(chord_notes)
        /\ chord_notes[sv.i] + 12 * (cfg.octave + cfg.soct[1]) \in 0..127

\* C10: after Start every pattern's accumulator is 0; with an empty chord the
\* cursor is 0, the caches are cleared and nothing was sent; with a chord held
\* exactly one step of each pattern has been fired from the reset state: the
\* cursor is one step on from 0 (mod length), no cache entry is filled beyond
\* the first step's, at most one note-on was sent for the pattern, and a
\* first step that plays has sent its note.
C10_StartResetsAndFiresOnce ==
    Handled("start") =>
        \A p \in Patterns :
            LET rt  == pattern_state[p]
                cfg == pattern_cfgs[p]
                ons == NoteOns(OnPort(emitted, p))
            IN  /\ rt.tick = 0
                /\ chord_notes = <<>> => (Counters0(p) /\ emitted = <<>>)
                /\ chord_notes # <<>> =>
                      /\ rt.step = 1 % cfg.length
                      /\ Len(rt.rand) = Len(cfg.steps)
                      /\ \A k \in 2..Len(rt.rand) : rt.rand[k] = None
                      /\ Len(ons) <= 1
                      /\ FirstStepPlays(p) =>
                            /\ Len(ons) = 1
                            /\ ons[1].note = chord_notes[cfg.steps[1].i]
                                             + 12 * (cfg.octave + cfg.soct[1])

\* the results of a chord enter with `chord` in a freshly set-up engine: the
\* reset and the immediate fire of every pattern (lines 715-724)
FreshChordEnter(chord) ==
    PlayAll(key_order.patterns, pattern_cfgs, out_map,
            Result(chord, [n \in DOMAIN out_map |-> None],
                   ResetCounters([n \in DOMAIN pattern_cfgs |-> NewRuntime]),
                   <<>>, FALSE))

\* C11: Start handled with a chord held sends the messages, and leaves every
\* pattern the cursor and the accumulator, of a chord enter with that chord in
\* a freshly set-up engine (no pattern has random elements).
C11_StartLikeFreshChordEnter ==
    (Handled("start") /\ chord_notes # <<>>) =>
        \E r \in FreshChordEnter(chord_notes) :
            /\ emitted = r.out
            /\ \A p \in Patterns :
                  /\ pattern_state[p].step = r.ps[p].step
                  /\ pattern_state[p].tick = r.ps[p].tick

\* C11 witness: Start has been handled while the arpeggio was running on a
\* two-note chord: the note of an earlier fire is still on beside Start's.
C11_Witness ==
    /\ Handled("start")
    /\ Len(chord_notes) = 2
    /\ emitted # <<>>
    /\ \E p \in Patterns : Cardinality(Notes(sounding[p])) = 2

\* what a Start handled in the given state would send
StartEmission(chord, last, ps, cfgs, omap, ord) ==
    {r.out : r \in HandleStart(chord, last, ps, cfgs, omap, ord)}

\* a step of the event loop that handles a message of this type
Handles(type) ==
    /\ pc \in {"recv", "dispatch"}
    /\ pc' \in {"recv", "closed"}
    /\ msg'.type = type

\* C12: with the chord unchanged and no random elements, a Stop followed at
\* once by a Start sends what a single Start sends from the same state: the
\* messages of the Stop, followed by those of the Start handled after it,
\* are the messages of one Start handled in the state before the Stop.
C12_StopStartLikeStart ==
    [][(Handles("stop") /\ pc' = "recv"
        /\ Cardinality(StartEmission(chord_notes, last_played, pattern_state,
                                     pattern_cfgs, out_map, key_order)) = 1) =>
          /\ chord_notes' = chord_notes
          /\ {emitted' \o o :
                 o \in StartEmission(chord_notes', last_played', pattern_state',
                                     pattern_cfgs', out_map', key_order')}
             = StartEmission(chord_notes, last_played, pattern_state,
                             pattern_cfgs, out_map, key_order)]_vars

\* C13: an event handled while the chord is empty, and that leaves it empty,
\* sends no note-on; a clock pulse received with an empty chord sends nothing
\* and changes no pattern's accumulator or cursor.
C13_EmptyChordSilent ==
    [][/\ (pc' \in {"recv", "closed"} /\ chord_notes' = <<>>) =>
              NoteOns(emitted') = <<>>
       /\ (Handles("clock") /\ chord_notes = <<>>) =>
              /\ emitted' = <<>>
              /\ pattern_state' = pattern_state]_vars

\* C13 witness: a clock pulse has been handled with an empty chord after the
\* patterns had played: a runtime still names a note and nothing was sent.
C13_Witness ==
    /\ Handled("clock")
    /\ chord_notes = <<>>
    /\ emitted = <<>>
    /\ \E p \in Patterns : pattern_state[p].note_on # None

\* every step of pattern p has probability 0 in the loaded configuration
ZeroProb(p) ==
    \A k \in 1..Len(pattern_cfgs[p].sprob) : pattern_cfgs[p].sprob[k] = 0

\* C14: a pattern whose s_prob is 0 on every step never sends a note-on,
\* whatever the event (chord enter, Start, clock pulse).
C14_ZeroProbNeverSounds ==
    \A p \in Patterns : ZeroProb(p) => NoteOns(OnPort(emitted, p)) = <<>>

\* pattern p is switched off in the loaded document
Disabled(p) ==
    Get(Get(Get(Data[config], "patterns", DictV(<<>>)), p, DictV(<<>>)),
        "enabled", BoolV(TRUE)) = BoolV(FALSE)

\* C20: a pattern whose configuration has enabled = false never sends a
\* note-on and never holds a sounding note, whatever the event.
C20_DisabledNeverSounds ==
    \A p \in Patterns :
        Disabled(p) =>
            /\ NoteOns(OnPort(emitted, p)) = <<>>
            /\ pattern_state[p].note_on = None

\* C15: after any sequence of note-ons and note-offs the chord buffer is
\* strictly ascending (so without duplicates) and has at most 8 entries.
C15_ChordSortedCapped ==
    /\ Len(chord_notes) <= 8
    /\ \A k \in 1..(Len(chord_notes) - 1) : chord_notes[k] < chord_notes[k + 1]

\* C15 witness: a note-on has arrived for a key that is not in the chord
\* because the chord already held 8 lower notes.
C15_Witness ==
    /\ Handled("note_on")
    /\ msg.velocity > 0
    /\ Len(chord_notes) = 8
    /\ ~InChord(chord_notes, msg.note)

\* the notes of a chord, as a set
Held(chord) == {chord[k] : k \in 1..Len(chord)}

\* the n lowest elements of a set of notes, ascending
RECURSIVE LowestSeq(_, _)
LowestSeq(S, n) ==
    IF S = {} \/ n = 0 THEN <<>>
    ELSE LET lo == CHOOSE x \in S : \A y \in S : x <= y
         IN  <<lo>> \o LowestSeq(S \ {lo}, n - 1)

\* C16: a note-on (velocity > 0) leaves the chord buffer the lowest 8 notes of
\* (chord + note) in ascending order, so a 9th distinct note drops the highest
\* and a note already present changes nothing; a note-off, or a note-on of
\* velocity 0, for a note that is absent changes nothing.
C16_InsertKeepsLowest ==
    [][/\ (Handles("note_on") /\ msg'.velocity > 0) =>
              /\ chord_notes' = LowestSeq(Held(chord_notes) \cup {msg'.note}, 8)
              /\ InChord(chord_notes, msg'.note) => chord_notes' = chord_notes
       /\ ((Handles("note_off") \/ (Handles("note_on") /\ msg'.velocity = 0))
           /\ ~InChord(chord_notes, msg'.note)) =>
              chord_notes' = chord_notes]_vars

\* C16 witness: with 8 notes held a lower 9th note has just been inserted, the
\* highest key being the one left out.
C16_Witness ==
    /\ Handled("note_on")
    /\ msg.velocity > 0
    /\ Len(chord_notes) = 8
    /\ chord_notes[1] = msg.note
    /\ chord_notes[8] = 60 + MaxKeys - 2

\* the division of pattern p in the loaded document
DivisionOf(p) ==
    CHOOSE d \in [base : Bases, suffix : Suffixes] :
        Division(d.base, d.suffix)
        = Get(Get(Get(Data[config], "patterns", DictV(<<>>)), p, DictV(<<>>)),
              "division", StrV("1/16")).s

\* the base table of the division resolver, in pulses
BaseTable(b) ==
    CASE b = "1"    -> 96
      [] b = "1/2"  -> 48
      [] b = "1/4"  -> 24
      [] b = "1/8"  -> 12
      [] b = "1/16" -> 6
      [] b = "1/32" -> 3
      [] OTHER      -> 6

\* the suffix multiplier as a fraction Num / Den: 1.5, 2/3, 4/5 or 1
Num(x) == CASE x = "d" -> 3 [] x = "t" -> 2 [] x = "q" -> 4 [] OTHER -> 1

Den(x) == CASE x = "d" -> 2 [] x = "t" -> 3 [] x = "q" -> 5 [] OTHER -> 1

\* the exact pulses-per-step of division d is ExactNum(d) / ExactDen(d)
ExactNum(d) == Max(Den(d.suffix), BaseTable(d.base) * Num(d.suffix))

ExactDen(d) == Den(d.suffix)

\* C17: the pulses-per-step resolved for a division equals the base table
\* value times exactly 1.5 (d), 2/3 (t) or 4/5 (q), at least 1, an unknown base
\* counting as 1/16.
C17_DivisionExact ==
    \A p \in Patterns :
        pattern_cfgs[p].pulses * ExactDen(DivisionOf(p)) = ExactNum(DivisionOf(p))

\* C18: with a chord held throughout, the number of steps a pattern has fired
\* after MaxClocks (1024) clock pulses is MaxClocks / pulses(d) to within one
\* step, pulses(d) being the exact pulses-per-step of its division.
C18_LongRunRate ==
    (meter.on /\ chord_notes # <<>> /\ meter.clocks = MaxClocks) =>
        \A p \in Patterns :
            LET d    == DivisionOf(p)
                diff == meter.fires[p] * ExactNum(d) - MaxClocks * ExactDen(d)
            IN  /\ diff <= ExactNum(d)
                /\ -diff <= ExactNum(d)

\* pattern p's accumulator is within [0, P), P its loaded pulses-per-step, and
\* while a chord is held it has fired at the pulses P, 2P, 3P, ... since the
\* chord was entered, and only then
OnTheGrid(p, rt, mt, chord) ==
    LET P == pattern_cfgs[p].pulses
    IN  /\ 0 <= rt.tick /\ rt.tick < P
        /\ (mt.on /\ chord # <<>>) =>
              /\ rt.tick = mt.clocks % P
              /\ mt.fires[p] = mt.clocks \div P

\* C19: on a clock pulse with a chord held every pattern's accumulator grows
\* by one, and a pattern fires exactly when it reaches its pulses-per-step P:
\* P is subtracted and one step is fired, never more. After the chord enter,
\* which fires the first step before any clock, the fires fall on the clock
\* pulses P, 2P, 3P, ..., and the accumulator is in [0, P) between events.
C19_FiresOnThreshold ==
    [][/\ pc' = "recv" =>
              \A p \in Patterns : OnTheGrid(p, pattern_state'[p], meter', chord_notes')
       /\ ChordEnterStep =>
              \A p \in Patterns :
                  /\ pattern_state'[p].tick = 0
                  /\ pattern_state'[p].step = 1 % pattern_cfgs[p].length
                  /\ Len(NoteOns(OnPort(emitted', p))) = 1
       /\ (Handles("clock") /\ chord_notes # <<>>) =>
              \A p \in Patterns :
                  LET rt  == pattern_state[p]
                      rt1 == pattern_state'[p]
                      P   == pattern_cfgs[p].pulses
                      ons == NoteOns(OnPort(emitted', p))
                  IN  IF rt.tick + 1 < P
                      THEN /\ rt1.tick = rt.tick + 1
                           /\ rt1.step = rt.step
                           /\ ons = <<>>
                      ELSE /\ rt1.tick = rt.tick + 1 - P
                           /\ rt1.step = (rt.step + 1) % pattern_cfgs[p].length
                           /\ Len(ons) <= 1]_vars

\* C19 witness: a pattern on 1/16 (6 pulses per step) has just fired for the
\* third time since the chord enter, on clock pulse 18.
C19_Witness ==
    /\ Handled("clock")
    /\ chord_notes # <<>>
    /\ meter.on
    /\ meter.clocks = 18
    /\ \E p \in Patterns :
          /\ DivisionOf(p) = [base |-> "1/16", suffix |-> ""]
          /\ pattern_cfgs[p].pulses = 6
          /\ meter.fires[p] = 3
          /\ pattern_state[p].tick = 0

\* the position of the step pattern p fires next
StepPos(p) == pattern_state[p].step % pattern_cfgs[p].length

\* the clock pulse being handled takes pattern p to its pulses-per-step
FiresNow(p) == pattern_state[p].tick + 1 >= pattern_cfgs[p].pulses

\* the gate of pattern p at step position k is a tie
TiedGate(p, k) ==
    LET gate == pattern_cfgs[p].gate
        g    == gate[(k % Len(gate)) + 1]
    IN  IsStr(g) /\ Upper(g.s) = "T"

\* the notes of the messages `out`
NotesOf(out) == {out[k].note : k \in 1..Len(out)}

\* C21: when a step fires a note N other than the sounding note M, and M came
\* from a tied step or the firing step is tied, NoteOn(N) is sent on the
\* firing pulse and NoteOff(M) one clock pulse later: during the firing pulse
\* M gets no note-off and both notes are on, and the next pulse releases M.
C21_TieOverlapsOnePulse ==
    [][(Handles("clock") /\ chord_notes # <<>>) =>
          \A p \in Patterns :
              LET rt   == pattern_state[p]
                  rt1  == pattern_state'[p]
                  ons  == NoteOns(OnPort(emitted', p))
                  offs == NoteOffs(OnPort(emitted', p))
              IN  /\ (/\ FiresNow(p)
                      /\ rt.note_on # None
                      /\ rt.tie_prev \/ TiedGate(p, StepPos(p))
                      /\ ons # <<>>
                      /\ ons[1].note # rt.note_on) =>
                         /\ rt.note_on \notin NotesOf(offs)
                         /\ rt1.pending_off = rt.note_on
                         /\ {rt.note_on, ons[1].note} \subseteq Notes(sounding'[p])
                  /\ rt.pending_off # None =>
                         /\ rt.pending_off \in NotesOf(offs)
                         /\ rt1.pending_off # rt.pending_off]_vars

\* the gate of pattern p at step position k, in percent (a tie counts as 0)
GatePercent(p, k) ==
    LET gate == pattern_cfgs[p].gate
        g    == gate[(k % Len(gate)) + 1]
    IN  IF IsStr(g) THEN 0 ELSE g.i

\* the gate of the step of pattern p at position k is a whole number G of
\* pulses with 0 < G < P, P the pulses per step
WholeGate(p, k) ==
    LET P == pattern_cfgs[p].pulses
        g == GatePercent(p, k)
    IN  /\ (P * g) % 100 = 0
        /\ 0 < P * g /\ P * g < P * 100

\* the position of the step pattern p fired last, its cursor being `step`
LastPos(p, step) ==
    (step + pattern_cfgs[p].length - 1) % pattern_cfgs[p].length

\* C22: a note started by a non-tied step with gate g% on P pulses per step is
\* released exactly P * g / 100 clock pulses after the pulse on which the step
\* fired (3 pulses after for gate 50 on 1/16), for a clock-driven fire as for
\* the immediate fire at chord enter or Start: a clock pulse that switches a
\* note of the pattern off is the (P * g / 100)-th pulse after the last fire.
C22_ReleasedAfterGatePulses ==
    [][(Handles("clock") /\ chord_notes # <<>>) =>
          \A p \in Patterns :
              LET rt1  == pattern_state'[p]
                  k    == LastPos(p, rt1.step)
                  offs == NoteOffs(OnPort(emitted', p))
                  rel  == (Notes(sounding[p]) \ Notes(sounding'[p])) \cap NotesOf(offs)
              IN  (/\ \A j \in 0..(pattern_cfgs[p].length - 1) : WholeGate(p, j)
                   /\ rel # {}) =>
                      rt1.tick * 100 = pattern_cfgs[p].pulses * GatePercent(p, k)]_vars

\* the step of pattern p at position k is a rest
RestAt(p, k) ==
    LET s == pattern_cfgs[p].steps[k + 1]
    IN  IsStr(s) /\ Upper(s.s) = "X"

\* the step in which a chord enter or a Start fires every pattern at once
ImmediateFire ==
    \/ ChordEnterStep
    \/ Handles("start") /\ chord_notes' # <<>>

\* C23: every fire of a rest step, clock-driven or immediate (chord enter,
\* Start), sends no note-on and moves the cursor on by one (mod length).
C23_RestAdvancesSilently ==
    [][\A p \in Patterns :
          LET rt1 == pattern_state'[p]
              len == pattern_cfgs[p].length
          IN  /\ (/\ Handles("clock") /\ chord_notes # <<>>
                  /\ FiresNow(p) /\ RestAt(p, StepPos(p))) =>
                     /\ NoteOns(OnPort(emitted', p)) = <<>>
                     /\ rt1.step = (pattern_state[p].step + 1) % len
              /\ (ImmediateFire /\ RestAt(p, 0)) =>
                     /\ OnPort(emitted', p) = <<>>
                     /\ rt1.step = 1 % len]_vars

\* the step of pattern p at position k names a held note by a fixed index
FixedAt(p, k, chord) ==
    LET s == pattern_cfgs[p].steps[k + 1]
    IN  ~IsStr(s) /\ 1 <= s.i /\ s.i <= Len(chord)

\* the probability of the step of pattern p at position k is 100
Certain(p, k) ==
    LET sprob == pattern_cfgs[p].sprob
    IN  sprob[(k % Len(sprob)) + 1] = 100

\* the note number of the step of pattern p at position k on `chord`: the
\* held note plus the global and the per-step octave
StepNote(p, k, chord) ==
    LET cfg  == pattern_cfgs[p]
        soct == cfg.soct[(k % Len(cfg.soct)) + 1]
    IN  chord[cfg.steps[k + 1].i] + 12 * (cfg.octave + soct)

\* C24: a fired step whose note number is outside [0..127] sends no note-on,
\* leaves the sounding note untouched (the gate countdown aside), and the
\* cursor moves on by one.
C24_OutOfRangeSkipsAndAdvances ==
    [][(Handles("clock") /\ chord_notes # <<>>) =>
          \A p \in Patterns :
              LET rt  == pattern_state[p]
                  rt1 == pattern_state'[p]
                  k   == StepPos(p)
              IN  (/\ FiresNow(p)
                   /\ FixedAt(p, k, chord_notes)
                   /\ Certain(p, k)
                   /\ StepNote(p, k, chord_notes) \notin 0..127) =>
                      /\ NoteOns(OnPort(emitted', p)) = <<>>
                      /\ rt1.note_on \in {rt.note_on, None}
                      /\ rt1.step = (rt.step + 1) % pattern_cfgs[p].length]_vars

\* the step of pattern p at position k is a fixed index above the chord size
AboveChord(p, k, chord) ==
    LET s == pattern_cfgs[p].steps[k + 1]
    IN  ~IsStr(s) /\ s.i > Len(chord)

\* the note numbers of pattern p's step at position k over every index of
\* the chord
NotesAt(p, k, chord) ==
    LET cfg  == pattern_cfgs[p]
        soct == cfg.soct[(k % Len(cfg.soct)) + 1]
    IN  {chord[i] + 12 * (cfg.octave + soct) : i \in 1..Len(chord)}

\* the fire of pattern p has sent a note-on for a note of `notes`, or has
\* sent none because the note sounding before, `was`, is one of them
Sounded(p, notes, was) ==
    LET ons == NoteOns(OnPort(emitted', p))
    IN  \/ Len(ons) = 1 /\ ons[1].note \in notes
        \/ ons = <<>> /\ was \in notes

\* C25: a fixed index above the chord size is never silenced: on every fire
\* of such a step (clock-driven, chord enter or Start) with s_prob 100 and the
\* octaves in range, a note of the chord is played (a note-on, or the
\* continuation of that note already sounding) and the cursor moves on.
C25_IndexAboveChordSalvaged ==
    [][\A p \in Patterns :
          LET rt  == pattern_state[p]
              rt1 == pattern_state'[p]
              len == pattern_cfgs[p].length
              k   == StepPos(p)
          IN  /\ (/\ Handles("clock") /\ chord_notes # <<>> /\ FiresNow(p)
                  /\ AboveChord(p, k, chord_notes) /\ Certain(p, k)
                  /\ NotesAt(p, k, chord_notes) \subseteq 0..127) =>
                     /\ Sounded(p, NotesAt(p, k, chord_notes), rt.note_on)
                     /\ rt1.step = (rt.step + 1) % len
              /\ (/\ ImmediateFire
                  /\ AboveChord(p, 0, chord_notes') /\ Certain(p, 0)
                  /\ NotesAt(p, 0, chord_notes') \subseteq 0..127) =>
                     /\ Sounded(p, NotesAt(p, 0, chord_notes'), rt.note_on)
                     /\ rt1.step = 1 % len]_vars

\* every note of the messages `ons` is one of `notes` and a MIDI note
NotesWithin(ons, notes) == NotesOf(ons) \subseteq (notes \cap 0..127)

\* C26: every note-on sent, by a clock-driven or an immediate fire, has a note
\* number in [0..127] equal to a held chord note plus 12 * (global octave +
\* s_oct of the step fired + the random octave offset, which is 0 without
\* r_oct).
C26_NoteIsChordPlusOctaves ==
    [][\A p \in Patterns :
          LET ons == NoteOns(OnPort(emitted', p))
          IN  /\ (Handles("clock") /\ chord_notes # <<>>) =>
                     NotesWithin(ons, NotesAt(p, StepPos(p), chord_notes))
              /\ ImmediateFire =>
                     NotesWithin(ons, NotesAt(p, 0, chord_notes'))]_vars

\* the velocities the claim allows for a base velocity and a v_random
VelRange(base, v) ==
    LET half == ((v * 127) \div 100) \div 2
    IN  IF v = 0 THEN {base}
        ELSE IF v < 100 THEN Max(1, base - half)..Min(127, base + half)
        ELSE 1..127

\* the base velocities of pattern p's step at position k: the configured
\* value, or for "R" the value drawn for the step (`drawn`, None when the
\* draw is not kept)
BasesAt(p, k, drawn) ==
    LET velocity == pattern_cfgs[p].velocity
        v        == velocity[(k % Len(velocity)) + 1]
    IN  IF ~IsStr(v) THEN {v.i}
        ELSE IF drawn = None THEN 1..127 ELSE {drawn}

\* every velocity of the messages `ons` is one the claim allows for pattern
\* p's step at position k
VelWithin(ons, p, k, drawn) ==
    LET vrandom == pattern_cfgs[p].vrandom
        v       == vrandom[(k % Len(vrandom)) + 1]
    IN  \A j \in 1..Len(ons) :
            /\ ons[j].velocity \in 1..127
            /\ \E base \in BasesAt(p, k, drawn) :
                  ons[j].velocity \in VelRange(base, v)

\* C27: every note-on sent has a velocity in [1..127]; with v_random 0 it is
\* the base velocity of the step, with 0 < v_random < 100 it is within
\* [max(1, base - half), min(127, base + half)], half = floor(floor(v_random *
\* 127 / 100) / 2), and with v_random >= 100 it is any value of [1..127].
C27_VelocityWithinRange ==
    [][\A p \in Patterns :
          LET ons == NoteOns(OnPort(emitted', p))
              k   == StepPos(p)
              rv  == pattern_state'[p].rand_vel
          IN  /\ (Handles("clock") /\ chord_notes # <<>>) =>
                     VelWithin(ons, p, k, IF k + 1 <= Len(rv) THEN rv[k + 1] ELSE None)
              /\ ImmediateFire => VelWithin(ons, p, 0, None)]_vars

\* C27 witness: a clock-driven fire of a step with base velocity 120 and
\* v_random 20 has sent a note-on at the lower end of its range, 108.
C27_Witness ==
    /\ Handled("clock")
    /\ \E p \in Patterns :
          /\ pattern_cfgs[p].velocity[2] = IntV(120)
          /\ pattern_cfgs[p].vrandom[2] = 20
          /\ pattern_state[p].step = 2
          /\ \E j \in 1..Len(emitted) :
                emitted[j].type = "note_on" /\ emitted[j].velocity = 108

\* message m is a note-off / a note-on of `note`
IsOff(m, note) == m.type = "note_off" /\ m.note = note

IsOn(m, note) == m.type = "note_on" /\ m.note = note

\* the clock pulse being handled fires a step of pattern p that plays a
\* fixed, held, in-range note with probability 100
FiresNote(p) ==
    /\ Handles("clock") /\ chord_notes # <<>>
    /\ FiresNow(p)
    /\ FixedAt(p, StepPos(p), chord_notes)
    /\ Certain(p, StepPos(p))
    /\ StepNote(p, StepPos(p), chord_notes) \in 0..127

\* the chord enter or the Start being handled fires, of pattern p, a first
\* step that plays a fixed, held, in-range note with probability 100
FiresFirstNote(p) ==
    /\ ImmediateFire
    /\ FixedAt(p, 0, chord_notes')
    /\ Certain(p, 0)
    /\ StepNote(p, 0, chord_notes') \in 0..127

\* the gate of pattern p's step at position k, in hundredths of a pulse
GateOf(p, k) == (pattern_cfgs[p].pulses * GatePercent(p, k) * OnePulse) \div GateScale

\* C28: when a non-tied step fires a note N, on a clock pulse or at once on
\* chord enter or Start, while a different note M produced by a non-tied step
\* is sounding, NoteOff(M) is sent before NoteOn(N) in the same event, N
\* becomes the sounding note, no pending_off is scheduled and the gate is set
\* to the step's gate pulses (of which the clock tail of a firing clock
\* pulse counts the first).
C28_RetriggerOffBeforeOn ==
    [][\A p \in Patterns :
          LET rt  == pattern_state[p]
              rt1 == pattern_state'[p]
              k   == IF ImmediateFire THEN 0 ELSE StepPos(p)
              N   == StepNote(p, k, chord_notes')
              out == OnPort(emitted', p)
          IN  (/\ FiresNote(p) \/ FiresFirstNote(p)
               /\ ~TiedGate(p, k)
               /\ rt.note_on # None /\ rt.note_on # N
               /\ rt.note_on \in Notes(sounding[p])
               /\ ~rt.tie_prev) =>
                  /\ Len(out) >= 2
                  /\ IsOff(out[1], rt.note_on)
                  /\ IsOn(out[2], N)
                  /\ rt1.pending_off = None
                  /\ ~rt1.tie_prev
                  /\ rt.note_on \notin Notes(sounding'[p])
                  /\ IF ImmediateFire
                     THEN /\ Len(out) = 2
                          /\ rt1.note_on = N
                          /\ N \in Notes(sounding'[p])
                          /\ rt1.gate_left = GateOf(p, k)
                     ELSE IF GateOf(p, k) > OnePulse
                     THEN /\ Len(out) = 2
                          /\ rt1.note_on = N
                          /\ N \in Notes(sounding'[p])
                          /\ rt1.gate_left = GateOf(p, k) - OnePulse
                     ELSE /\ rt1.note_on = None
                          /\ IsOff(out[3], N)]_vars

\* the notes the step of pattern p at position k can play on `chord`: the
\* note of its fixed index, or of any index when the index is above the chord
FiredNotes(p, k, chord) ==
    IF FixedAt(p, k, chord) THEN {StepNote(p, k, chord)}
    ELSE IF AboveChord(p, k, chord) THEN NotesAt(p, k, chord)
    ELSE {}

\* the event being handled fires a step of pattern p, on a clock pulse or at
\* once on chord enter or Start, that plays the note the pattern is sounding
FiresSameNote(p) ==
    LET k == IF ImmediateFire THEN 0 ELSE StepPos(p)
    IN  /\ \/ Handles("clock") /\ chord_notes # <<>> /\ FiresNow(p)
           \/ ImmediateFire
        /\ Certain(p, k)
        /\ pattern_state[p].note_on # None
        /\ pattern_state[p].note_on \in Notes(sounding[p])
        /\ FiredNotes(p, k, chord_notes') = {pattern_state[p].note_on}

\* C29: when a step fires the note that is already sounding on its pattern,
\* on a clock pulse or at once on chord enter or Start, no note-on and no
\* note-off is sent for the fire (no retrigger); a non-tied step resets the
\* gate to its gate pulses (of which the clock tail of a firing clock pulse
\* counts the first) and clears the tied flag; a tied step switches the note
\* to sustain and sets the tied flag.
C29_SameNoteNoRetrigger ==
    [][\A p \in Patterns :
          LET rt  == pattern_state[p]
              rt1 == pattern_state'[p]
              k   == IF ImmediateFire THEN 0 ELSE StepPos(p)
              out == OnPort(emitted', p)
          IN  FiresSameNote(p) =>
                  /\ NoteOns(out) = <<>>
                  /\ rt1.pending_off = None
                  /\ IF TiedGate(p, k)
                     THEN /\ out = <<>>
                          /\ rt1.note_on = rt.note_on
                          /\ rt1.gate_left = Sustain
                          /\ rt1.tie_prev
                     ELSE /\ ~rt1.tie_prev
                          /\ IF ImmediateFire
                             THEN /\ out = <<>>
                                  /\ rt1.note_on = rt.note_on
                                  /\ rt1.gate_left = GateOf(p, k)
                             ELSE IF GateOf(p, k) > OnePulse
                             THEN /\ out = <<>>
                                  /\ rt1.note_on = rt.note_on
                                  /\ rt1.gate_left = GateOf(p, k) - OnePulse
                             ELSE /\ rt1.note_on = None
                                  /\ Len(out) = 1
                                  /\ IsOff(out[1], rt.note_on)]_vars

\* pattern p holds a note in sustain: the note of a tied step
Sustained(p) ==
    /\ pattern_state[p].note_on # None
    /\ pattern_state[p].gate_left = Sustain

\* the step in which pattern p fires: a clock pulse that takes it to its
\* pulses-per-step with a chord held, or an immediate fire
FireOf(p) ==
    \/ Handles("clock") /\ chord_notes # <<>> /\ FiresNow(p)
    \/ ImmediateFire

\* the step ends the sustain of pattern p: its runtime names another note, or
\* none, or counts a gate down, or is no more
SustainEnds(p) ==
    \/ p \notin DOMAIN pattern_state'
    \/ pattern_state'[p].note_on # pattern_state[p].note_on
    \/ pattern_state'[p].gate_left # Sustain

\* the step sends a note-off for the note pattern p holds
ReleasesNote(p) ==
    pattern_state[p].note_on \in NotesOf(NoteOffs(OnPort(emitted', p)))

\* a step of the event loop, and not the signal handler setting the reload
\* flag between two events (`emitted` is then still what the last event sent)
LoopStep == reload_requested' => reload_requested

\* the causes the claim names for the end of a sustain: a fire of the
\* pattern, chord-empty, Stop, shutdown
NamedCause(p) ==
    \/ FireOf(p)
    \/ chord_notes # <<>> /\ chord_notes' = <<>>
    \/ Handles("stop")
    \/ pc' = "closed"

\* a reload that succeeds: the runtime of every pattern is made anew
ReloadStep == pc = "reload" /\ log' = "reloaded"

\* C30 (as claimed): a note started or continued by a tied step is in
\* sustain: a clock pulse on which the pattern does not fire sends nothing
\* for the pattern and leaves the note and its sustain as they are, however
\* many pulses follow. The sustain ends, and a note-off for the note is sent,
\* only in a fire of the pattern (a different note, or a non-tied step that
\* re-gates the note), on chord-empty, on Stop or at shutdown.
C30_SustainEndsOnlyAsNamed ==
    [][\A p \in Patterns :
          (Sustained(p) /\ LoopStep) =>
              /\ (Handles("clock") /\ ~(chord_notes # <<>> /\ FiresNow(p))) =>
                     (OnPort(emitted', p) = <<>> /\ ~SustainEnds(p))
              /\ SustainEnds(p) => NamedCause(p)
              /\ ReleasesNote(p) => NamedCause(p)]_vars

\* C30 (amended): as claimed, with one more cause for the end of a sustain:
\* a reload that succeeds re-initialises the runtime of the pattern, and
\* with it the sustain.
C30_TiedNoteSustains ==
    [][\A p \in Patterns :
          (Sustained(p) /\ LoopStep) =>
              /\ (Handles("clock") /\ ~(chord_notes # <<>> /\ FiresNow(p))) =>
                     (OnPort(emitted', p) = <<>> /\ ~SustainEnds(p))
              /\ SustainEnds(p) => (NamedCause(p) \/ ReloadStep)
              /\ ReleasesNote(p) => (NamedCause(p) \/ ReloadStep)]_vars

\* C30 witness: a tied step has started a note and two clock pulses have
\* passed since: the note is on and in sustain, nothing was sent on the pulse.
C30_Witness ==
    /\ Handled("clock")
    /\ emitted = <<>>
    /\ \E p \in Patterns :
          /\ TiedGate(p, 0)
          /\ pattern_state[p].step = 1
          /\ pattern_state[p].tick = 2
          /\ pattern_state[p].note_on = 60
          /\ pattern_state[p].gate_left = Sustain
          /\ pattern_state[p].tie_prev
          /\ chord_notes = <<60>>
          /\ 60 \in Notes(sounding[p])

\* a step of the event loop that handles a message of this type, and not the
\* signal handler running between two events
Handling(type) == Handles(type) /\ reload_requested' = reload_requested

\* one pattern's clock pulse on its own: the accumulator and the fire, then
\* its clock tail; the runtimes and emissions it can end with
AlonePulse(p) ==
    {[rt  |-> ClockTail(o.rt, p, out_map[p]).rt,
      out |-> o.out \o ClockTail(o.rt, p, out_map[p]).out] :
       o \in ClockPattern(pattern_state[p], pattern_cfgs[p], p, out_map[p],
                          chord_notes)}

\* C31: patterns are independent: on a clock pulse every pattern's runtime
\* and the messages on its output are those of that pattern handled alone,
\* whatever the other patterns do; a pattern that does not fire on the pulse
\* keeps its cursor, caches and tied flag and sends no note-on; every message
\* is sent on the output and channel of the pattern it comes from.
C31_PatternsIndependent ==
    [][(Handling("clock") /\ chord_notes # <<>> /\ pc' = "recv") =>
          /\ \A p \in Patterns :
                LET rt  == pattern_state[p]
                    rt1 == pattern_state'[p]
                IN  /\ \E a \in AlonePulse(p) :
                          /\ rt1 = a.rt
                          /\ OnPort(emitted', p) = a.out
                    /\ ~FiresNow(p) =>
                          /\ rt1.tick = rt.tick + 1
                          /\ rt1.step = rt.step
                          /\ rt1.rand = rt.rand
                          /\ rt1.rand_vel = rt.rand_vel
                          /\ rt1.tie_prev = rt.tie_prev
                          /\ NoteOns(OnPort(emitted', p)) = <<>>
          /\ \A j \in 1..Len(emitted') :
                /\ emitted'[j].port \in Patterns
                /\ emitted'[j].channel = out_map[emitted'[j].port]]_vars

\* C31 witness: on one clock pulse a pattern has fired and sent a note-on
\* while the other pattern, between two of its steps, sent nothing and kept
\* its cursor off the first step.
C31_Witness ==
    /\ Handled("clock")
    /\ \E p, q \in Patterns :
          /\ p # q
          /\ pattern_state[p].tick = 0
          /\ NoteOns(OnPort(emitted, p)) # <<>>
          /\ pattern_state[q].tick > 0
          /\ pattern_state[q].step > 0
          /\ OnPort(emitted, q) = <<>>

\* the pattern names in the order "output_channels" of the loaded document
\* lists them
ConfigOrder ==
    LET oc == Get(Data[config], "output_channels", DictV(<<>>)).items
    IN  [k \in 1..Len(oc) |-> oc[k][1]]

\* the ways pattern p's clock pulse can end in the runtime rt1: the messages
\* of its step fire and those of its clock tail
PulseParts(p, rt1) ==
    {[fire |-> o.out, tail |-> ClockTail(o.rt, p, out_map[p]).out] :
       o \in {x \in ClockPattern(pattern_state[p], pattern_cfgs[p], p, out_map[p],
                                 chord_notes) :
                ClockTail(x.rt, p, out_map[p]).rt = rt1}}

\* the fire messages of the patterns `names` in that order, and their tail
\* messages in that order, for the runtimes ps1 after the pulse
RECURSIVE PulseOrders(_, _)
PulseOrders(names, ps1) ==
    IF names = <<>> THEN {[fires |-> <<>>, tails |-> <<>>]}
    ELSE {[fires |-> a.fire \o r.fires, tails |-> a.tail \o r.tails] :
            a \in PulseParts(Head(names), ps1[Head(names)]),
            r \in PulseOrders(Tail(names), ps1)}

\* C32: within one clock pulse the step-fire messages of the patterns come in
\* configuration order, all of them before every clock-tail message (gate
\* note-offs and pending note-offs), and the clock-tail messages come in
\* configuration order too, a pattern's gate note-off before its pending one.
C32_FiresThenTailsInOrder ==
    [][(Handling("clock") /\ chord_notes # <<>> /\ pc' = "recv") =>
          \E x \in PulseOrders(ConfigOrder, pattern_state') :
              emitted' = x.fires \o x.tails]_vars

\* C32 witness: both patterns have fired their second step on the same pulse:
\* two note-ons in pattern order, then the gate note-off and the pending
\* note-offs in pattern order.
C32_Witness ==
    /\ Handled("clock")
    /\ Len(emitted) = 5
    /\ IsOn(emitted[1], 64) /\ emitted[1].port = "Pattern 1"
    /\ IsOn(emitted[2], 64) /\ emitted[2].port = "Pattern 2"
    /\ IsOff(emitted[3], 60) /\ emitted[3].port = "Pattern 1"
    /\ IsOff(emitted[4], 64) /\ emitted[4].port = "Pattern 2"
    /\ IsOff(emitted[5], 60) /\ emitted[5].port = "Pattern 2"

\* the engine state and the emission after the step equal a result of
\* handling message m
HandledAs(m) ==
    \E r \in Handlers(m) :
        /\ ~r.err
        /\ chord_notes' = r.chord
        /\ last_played' = r.last
        /\ pattern_state' = r.ps
        /\ emitted' = r.out

\* message m is one the engine takes no notice of: a note on another channel
\* or a message that is no clock, start, stop or note
Ignored(m) ==
    \/ m.type \in {"note_on", "note_off"} /\ m.channel # in_channel
    \/ m.type \notin {"clock", "start", "stop", "note_on", "note_off"}

\* C33: a note-on or note-off on another channel than the input channel, and
\* a message of any type other than clock, start, stop, note-on and note-off,
\* changes no engine state and sends nothing; clock, start and stop are
\* handled whatever their channel; a note-on of velocity 0 on the input
\* channel is handled as the note-off of its note.
C33_InputFilter ==
    [][(pc = "recv" /\ pc' = "recv" /\ reload_requested' = reload_requested) =>
          /\ Ignored(msg') =>
                /\ emitted' = <<>>
                /\ UNCHANGED <<chord_notes, last_played, pattern_state,
                               pattern_cfgs, out_map, key_order, sounding>>
          /\ msg'.type \in {"clock", "start", "stop"} =>
                HandledAs(Msg(msg'.type, 0, 0, 0))
          /\ (msg'.type = "note_on" /\ msg'.velocity = 0
              /\ msg'.channel = in_channel) =>
                HandledAs(Msg("note_off", msg'.note, 0, in_channel))]_vars

\* C33 witness: with a chord held and a note on, a note-on for a key outside
\* the chord has arrived on another channel and nothing has happened.
C33_Witness ==
    /\ Handled("note_on")
    /\ msg.channel # in_channel
    /\ msg.velocity > 0
    /\ chord_notes # <<>>
    /\ ~InChord(chord_notes, msg.note)
    /\ emitted = <<>>
    /\ \E p \in Ports : sounding[p] # {}

\* C34: a note-on or note-off on the input channel that takes the chord from
\* one non-empty set to another non-empty one, or leaves it as it is, sends
\* nothing and leaves every pattern's accumulator, cursor, caches and
\* note-lifecycle state, and last_played, unchanged (the handler runs to its
\* end: no signal ends the loop inside it).
C34_ChordChangeKeepsStep ==
    [][((Handling("note_on") \/ Handling("note_off")) /\ ~Leaves
        /\ ((chord_notes # <<>> /\ chord_notes' # <<>>) \/ chord_notes' = chord_notes)) =>
          /\ emitted' = <<>>
          /\ pattern_state' = pattern_state
          /\ last_played' = last_played
          /\ sounding' = sounding]_vars

\* C34 witness: a second key has been added to a one-note chord while a
\* pattern was between two steps with a note on: nothing was sent and the
\* pattern is where it was.
C34_Witness ==
    /\ Handled("note_on")
    /\ Len(chord_notes) = 2
    /\ emitted = <<>>
    /\ \E p \in Patterns :
          /\ pattern_state[p].tick > 0
          /\ pattern_state[p].step > 0
          /\ pattern_state[p].note_on # None

\* entry j of a cache, None where the cache has no such entry
CacheAt(cache, j) == IF j <= Len(cache) THEN cache[j] ELSE None

\* the cache is all-empty but for entry j, which is empty or an index of
\* `chord`
FreshBut(cache, j, chord) ==
    \A i \in 1..Len(cache) :
        IF i = j THEN cache[i] \in {None} \cup 1..Len(chord)
        ELSE cache[i] = None

\* the cache `new` keeps every entry of `old`, entry j too once it is set,
\* and a newly set entry j is an index of `chord`
KeptBut(old, new, j, chord) ==
    \A i \in 1..Len(new) :
        IF i = j /\ CacheAt(old, i) = None
        THEN new[i] \in {None} \cup 1..Len(chord)
        ELSE new[i] = CacheAt(old, i)

\* the step of pattern p at position k is random
RandomAt(p, k) ==
    LET s == pattern_cfgs[p].steps[k + 1]
    IN  IsStr(s) /\ Upper(s.s) = "R"

\* C35: a pattern's random caches are reset to all-empty exactly when a step
\* fires at cursor position 0 and on a pattern reset: such a fire leaves no
\* entry but the first step's, so a one-step random pattern draws afresh on
\* every fire; a fire at another position keeps every entry, the one of the
\* step fired too once it is sampled, and a step that plays plays its cached
\* index; no other event changes the caches; a sampled index is in
\* [1..chord size].
C35_CachesResetAtStepZero ==
    [][(pc = "recv" /\ pc' = "recv") =>
          \A p \in Patterns :
              LET rt  == pattern_state[p]
                  rt1 == pattern_state'[p]
                  k   == StepPos(p)
                  ons == NoteOns(OnPort(emitted', p))
              IN  IF ImmediateFire
                  THEN /\ FreshBut(rt1.rand, 1, chord_notes')
                       /\ FreshBut(rt1.rand_vel, 0, chord_notes')
                  ELSE IF Handles("clock") /\ chord_notes # <<>> /\ FiresNow(p)
                  THEN /\ IF k = 0
                          THEN /\ FreshBut(rt1.rand, 1, chord_notes)
                               /\ FreshBut(rt1.rand_vel, 0, chord_notes)
                          ELSE /\ KeptBut(rt.rand, rt1.rand, k + 1, chord_notes)
                               /\ rt1.rand_vel = rt.rand_vel
                       /\ (RandomAt(p, k) /\ ons # <<>>) =>
                              /\ CacheAt(rt1.rand, k + 1) # None
                              /\ ons[1].note = chord_notes[rt1.rand[k + 1]]
                                    + 12 * (pattern_cfgs[p].octave
                                            + pattern_cfgs[p].soct[k + 1])
                  ELSE IF chord_notes # <<>> /\ chord_notes' = <<>>
                  THEN rt1.rand = <<>> /\ rt1.rand_vel = <<>>
                  ELSE IF Handles("start")
                  THEN rt1.rand = <<>> /\ rt1.rand_vel = <<>>
                  ELSE rt1.rand = rt.rand /\ rt1.rand_vel = rt.rand_vel]_vars

\* C35 witness: a random step above the MIDI range has been evaluated again
\* on a later step boundary, after the chord had shrunk to one note, and has
\* kept the index 2 sampled the first time.
C35_Witness ==
    /\ Handled("clock")
    /\ chord_notes = <<60>>
    /\ \E p \in Patterns :
          /\ pattern_cfgs[p].octave = 5
          /\ pattern_state[p].step = 1
          /\ pattern_state[p].tick = 0
          /\ pattern_state[p].rand[2] = 2


\* the numbers of entries of the per-step lists of a loaded pattern
StepLists(cfg) ==
    {Len(cfg.steps), Len(cfg.velocity), Len(cfg.vrandom), Len(cfg.sprob),
     Len(cfg.soct), Len(cfg.gate)}

\* C36: every per-step list (steps, velocity, v-random, s-prob, s-oct, gate)
\* of every loaded pattern has exactly `length` entries, so the step
\* descriptor at every cursor position in [0, length) is defined, and no fire
\* fails on a missing entry (the event loop is never left through an
\* exception of a handler).
C36_ListsHaveLengthEntries ==
    /\ \A p \in DOMAIN pattern_cfgs :
          StepLists(pattern_cfgs[p]) = {pattern_cfgs[p].length}
    /\ pc # "closed"

\* the fire at cursor position 2 of a pattern of length 3 has failed on the
\* missing third entry of `steps`
C36_FireFailed ==
    /\ pc = "closed"
    /\ msg.type = "clock"
    /\ \E p \in Patterns :
          /\ pattern_cfgs[p].length = 3
          /\ Len(pattern_cfgs[p].steps) = 2
          /\ pattern_state[p].step = 2


\* an input event arrives: the loop takes a message from the input port
Arrives ==
    /\ pc = "recv"
    /\ msg'.type # "none"
    /\ reload_requested' => reload_requested

\* C37: a reload request is never lost. A raised flag stays raised until the
\* loop takes the next input event, whatever the signal interleaves with; the
\* event that finds the flag raised clears it and starts a reload before
\* anything else; the configuration is read after the flag was cleared and
\* the load never clears the flag, so a signal arriving while a reload is
\* being applied is still pending after it. The request lives as long as the
\* loop does: a step that ends the loop ends the request with it.
C37_ReloadNeverLost ==
    [][/\ (reload_requested /\ ~reload_requested' /\ ~Leaves) =>
              (pc = "recv" /\ pc' = "reload")
       /\ (reload_requested /\ Arrives /\ ~Leaves) =>
              (pc' = "reload" /\ ~reload_requested')
       /\ (pc = "reload" /\ pc' # "reload" /\ ~Leaves) =>
              /\ pc' = "dispatch"
              /\ log' \in {"reloaded", "failed"}
              /\ reload_requested' = reload_requested]_vars

\* C37 witness: a signal has arrived while a reload was being applied; the
\* new document has been loaded and the request is still pending.
C37_Witness ==
    /\ pc = "dispatch"
    /\ log = "reloaded"
    /\ config # InitDoc
    /\ reload_requested


\* what is on at each output just before the i-th message of `out` is sent
OnBefore(out, i) == Account(sounding, SubSeq(out, 1, i - 1))

\* C38: every note-off the engine emits is for a note that is on at that
\* moment on that output: no event (chord-empty, Stop, clock with an empty
\* chord, shutdown) emits a note-off for a note its gate has already
\* released.
C38_NoSpuriousNoteOff ==
    [][(/\ pc \in {"recv", "dispatch"}
        /\ pc' \in {"recv", "closed"}
        /\ reload_requested' = reload_requested) =>
          \A i \in 1..Len(emitted') :
              emitted'[i].type = "note_off" =>
                  <<emitted'[i].channel, emitted'[i].note>>
                      \in OnBefore(emitted', i)[emitted'[i].port]]_vars


\* Stop has sent a note-off for the note of a chord enter that its gate had
\* released before
C38_StopAfterGate ==
    /\ Handled("stop")
    /\ \E p \in Patterns :
          /\ pattern_state[p].note_on = None
          /\ GatePercent(p, 0) = 50
          /\ NoteOns(OnPort(emitted, p)) = <<>>
          /\ OnPort(emitted, p) # <<>>


\* C39: progress: while the chord stays non-empty and unchanged and clock
\* pulses keep arriving, the step cursor of the pattern advances infinitely
\* often: it stays on no step position forever.
C39_CursorKeepsAdvancing ==
    \/ []<>(chord_notes = <<>>)
    \/ []<><<chord_notes' # chord_notes>>_vars
    \/ []<><<pattern_state'["Pattern 1"].step
                # pattern_state["Pattern 1"].step>>_vars

\* the pattern waits on a step whose note is above the MIDI range
C39_Stuck ==
    /\ Handled("clock")
    /\ chord_notes = <<60>>
    /\ pattern_cfgs["Pattern 1"].octave = 5
    /\ pattern_state["Pattern 1"].step = 0
    /\ pattern_state["Pattern 1"].tick = 0
    /\ pattern_state["Pattern 1"].note_on = None


\* C40: at every event boundary every pattern's pending_off is null: a
\* pending release set by a step fire is sent by the clock tail of the same
\* clock pulse, so no pending release is waiting when the next one is set.
C40_NoPendingAtBoundary ==
    pc = "recv" => \A p \in Patterns : pattern_state[p].pending_off = None

\* C40 witness: a clock pulse has fired a step that glides from a tied note
\* (note-on 64 while 60 sounds) and its tail has released the pending note 60.
C40_Witness ==
    /\ Handled("clock")
    /\ \E p \in Patterns :
          LET out == OnPort(emitted, p)
          IN  /\ Len(out) = 2
              /\ IsOn(out[1], 64)
              /\ IsOff(out[2], 60)
              /\ pattern_state[p].pending_off = None
              /\ pattern_state[p].note_on = 64

====
